---- MODULE Spec2Model ----
(***************************************************************************)
(* Conversation loops of the node-agents repository.                       *)
(*                                                                         *)
(* Spec models the three memory agents: the note agent (memory.agent.ts),  *)
(* the file-memory agent and the vector-memory agent.  One behaviour is    *)
(* one call of memoryAgent(): a loop instance with its own chatMemory and  *)
(* noteMemory, the notes.txt file and the memories table it finds.         *)
(* SpecLookup models the weather and news agents, SpecTravel the travel    *)
(* agent with the planning loops of its planTrip calls and SpecCustomer    *)
(* the customer agent, in the same variables; SpecAll is a run of any one  *)
(* of them.  SpecSessions is a                                             *)
(* series of memoryAgent() calls on one notes.txt and one table.           *)
(* In Spec the model API gives every tool call an id of its own; SpecIds   *)
(* is Spec with ids that are only distinct within one message.             *)
(* A message of the model API has a tool_calls array, which may be empty,  *)
(* or none: the decision steps take this as their input "listed", and a    *)
(* message record holds the empty sequence in both cases.                  *)
(* SpecPlanTrip is one call of planTrip, the planning loop of the travel   *)
(* agent, and SpecPlanTripFair the same call when every awaited promise    *)
(* settles; SpecBudget is one call of checkBudget.                         *)
(*                                                                         *)
(* Strings are sequences of tokens, so that concatenation, join and        *)
(* template strings are sequence concatenation; the empty sequence is the  *)
(* empty (or null) string, which is what JavaScript treats as falsy.       *)
(* Tokens are written in ASCII: the star of the tool message templates     *)
(* ("Note added to memory ...: ") is left out of the token.                *)
(* An action is one run of the event loop: from the resolution of an       *)
(* awaited promise to the next await of the agent function.                *)
(***************************************************************************)
EXTENDS Integers, Sequences, FiniteSets, TLC

VARIABLES
    agent,          \* which memoryAgent() runs: "memory", "file" or "vector"
    pc,             \* where the agent function is suspended
    chatMemory,     \* chatMemory: the transcript
    noteMemory,     \* noteMemory: the short-term notes
    notesFile,      \* notes.txt: [exists, writable, content]
    db,             \* memoriesTable: the contents of its rows, in insertion order
    systemPrompt,   \* systemPrompt of the current turn
    calls,          \* firstMessage.tool_calls of the current turn
    task,           \* per tool call: state of its callback
    turn,           \* number of user inputs accepted so far
    nextId,         \* next tool call id the model API hands out
    rlClosed,       \* rl.close() has been called
    requests,       \* history: every openai.chat.completions.create call
    responses,      \* history: every message such a call resolved with
    tierWrites,     \* history: every write to a memory tier by a tool call
    executed,       \* history: the id of a tool call, each time its executor is called
    turnStart,      \* history: Len(chatMemory) when the current turn began
    planningHistory,    \* planTrip: planningHistory
    iterations,         \* planTrip: iterations
    planResult,         \* planTrip: the text it returned
    planPc,             \* planTrip: where the call is suspended
    planCalls,          \* planTrip: message.tool_calls of the current iteration
    planTask,           \* planTrip: per tool call, how far the for loop got
    budgetArgs,         \* checkBudget: totalCost and budget of the call
    budgetResult,       \* checkBudget: the object it returned
    oldCalls,       \* tool calls of the memoryAgent() calls that ended with callbacks pending
    oldTask,        \* per tool call of oldCalls: state of its callback
    fileAtTurnStart \* history: notes.txt when the current turn began

vars == <<agent, pc, chatMemory, noteMemory, notesFile, db, systemPrompt,
          calls, task, turn, nextId, rlClosed, requests, responses, tierWrites, executed,
          turnStart, planningHistory, iterations, planResult, planPc, planCalls,
          planTask, budgetArgs, budgetResult, oldCalls, oldTask, fileAtTurnStart>>

\* the variables of a planTrip call and those of a checkBudget call
planVars == <<planningHistory, iterations, planResult, planPc, planCalls, planTask>>
budgetVars == <<budgetArgs, budgetResult>>

\* the callbacks of the calls of memoryAgent() that have ended
endedVars == <<oldCalls, oldTask>>

\* no checkBudget call was made, and none has returned
NoArgs == [totalCost |-> 0, budget |-> 0]
NoResult == <<>>

----------------------------------------------------------------------------
(* Bounds: the user inputs accepted by one loop instance, and the tool     *)
(* calls the model requests from it in total.                              *)

MaxTurns == 2
MaxCalls == 2

\* the notes other loop instances append to notes.txt during a run
MaxForeignNotes == 1

\* the amounts checkBudget is called with: -MaxAmount..MaxAmount
MaxAmount == 7

----------------------------------------------------------------------------
(* Strings *)

EmptyStr == <<>>
Undefined == "undefined"
Newline == "\n"

\* String.prototype.toLowerCase, token by token
LowerTok(c) ==
    CASE c = "E" -> "e"
      [] c = "X" -> "x"
      [] c = "I" -> "i"
      [] c = "T" -> "t"
      [] c = "H" -> "h"
      [] OTHER -> c

\* toLowerCase that leaves the text as it is: a faulty variant
toLowerCaseIdentity(s) == [i \in 1..Len(s) |-> s[i]]

toLowerCase(s) == [i \in 1..Len(s) |-> LowerTok(s[i])]

ExitWord == <<"e", "x", "i", "t">>

\* what the user may type
UserInputs ==
    { <<"h", "i">>, <<"e", "x", "i", "t">>, <<"E", "X", "I", "T">>,
      <<"E", "x", "i", "t">> }

\* Array.prototype.join
RECURSIVE join(_, _)
join(parts, sep) ==
    IF parts = <<>> THEN <<>>
    ELSE IF Len(parts) = 1 THEN parts[1]
    ELSE parts[1] \o sep \o join(Tail(parts), sep)

\* s has t as a contiguous substring
Includes(s, t) ==
    \E i \in 0..(Len(s) - Len(t)) : \A j \in 1..Len(t) : s[i + j] = t[j]

----------------------------------------------------------------------------
(* Tool calls and their arguments *)

\* The arguments texts the model may send, and JSON.parse of each:
\* [ok |-> FALSE] stands for a SyntaxError.
ArgsNote1 == "{\"note\":\"n1\"}"
ArgsNote2 == "{\"note\":\"n2\"}"
ArgsQuery1 == "{\"query\":\"n1\"}"
ArgsLocation == "{\"location\":\"SF\"}"
ArgsQ == "{\"q\":\"ai\"}"
ArgsTrip == "{\"destination\":\"Paris\",\"budget\":1000,\"tripLength\":3}"
ArgsEmail == "{\"email\":\"a@b.c\"}"
ArgsEmpty == "{}"
ArgsPlanned == "{\"isPlanned\":true,\"finalItinerary\":\"Day 1\"}"
ArgsPlannedToo == "{\"isPlanned\":true,\"finalItinerary\":\"Day 2\"}"
ArgsNotPlanned == "{\"isPlanned\":false,\"finalItinerary\":\"draft\"}"
ArgsBudget == "{\"totalCost\":5,\"budget\":7}"
ArgsBroken == "{\"note\":"

JSONparse(text) ==
    CASE text = ArgsNote1 -> [ok |-> TRUE, value |-> ("note" :> <<"n1">>)]
      [] text = ArgsNote2 -> [ok |-> TRUE, value |-> ("note" :> <<"n2">>)]
      [] text = ArgsQuery1 -> [ok |-> TRUE, value |-> ("query" :> <<"n1">>)]
      [] text = ArgsLocation -> [ok |-> TRUE, value |-> ("location" :> <<"SF">>)]
      [] text = ArgsQ -> [ok |-> TRUE, value |-> ("q" :> <<"ai">>)]
      [] text = ArgsTrip ->
            [ok |-> TRUE,
             value |-> [destination |-> <<"Paris">>, budget |-> 1000,
                        tripLength |-> 3]]
      [] text = ArgsEmail -> [ok |-> TRUE, value |-> ("email" :> <<"a@b.c">>)]
      [] text = ArgsEmpty -> [ok |-> TRUE, value |-> <<>>]
      [] text = ArgsPlanned ->
            [ok |-> TRUE,
             value |-> [isPlanned |-> <<"true">>, finalItinerary |-> <<"Day 1">>]]
      [] text = ArgsPlannedToo ->
            [ok |-> TRUE,
             value |-> [isPlanned |-> <<"true">>, finalItinerary |-> <<"Day 2">>]]
      [] text = ArgsNotPlanned ->
            [ok |-> TRUE,
             value |-> [isPlanned |-> <<"false">>, finalItinerary |-> <<"draft">>]]
      [] text = ArgsBudget -> [ok |-> TRUE, value |-> [totalCost |-> 5, budget |-> 7]]
      [] OTHER -> [ok |-> FALSE, value |-> <<>>]

\* property access args.f: undefined when the object has no such property
Prop(obj, f) == IF f \in DOMAIN obj THEN obj[f] ELSE <<Undefined>>

\* MemoryToolTypes of each agent
MemoryToolTypes(a) ==
    CASE a = "memory" -> {"addNote"}
      [] a = "file" -> {"noteToMemory", "noteToFile"}
      [] a = "vector" -> {"noteToMemory", "noteToFile", "noteToDb", "notesFromDb"}

\* the required property of each tool's parameters schema
RequiredProp(name) == IF name = "notesFromDb" THEN "query" ELSE "note"

Call(name, arguments) == [name |-> name, arguments |-> arguments]

\* what one tool call of a model decision may be
ToolChoices(a) ==
    CASE a = "memory" ->
            { Call("addNote", ArgsNote1), Call("addNote", ArgsNote2),
              Call("addNote", ArgsEmpty), Call("addNote", ArgsBroken),
              Call("deleteNote", ArgsEmpty) }
      [] a = "file" ->
            { Call("noteToMemory", ArgsNote1), Call("noteToFile", ArgsNote2),
              Call("noteToMemory", ArgsEmpty), Call("noteToFile", ArgsBroken),
              Call("deleteNote", ArgsEmpty) }
      [] a = "vector" ->
            { Call("noteToMemory", ArgsNote1), Call("noteToFile", ArgsNote2),
              Call("noteToDb", ArgsNote1), Call("notesFromDb", ArgsQuery1),
              Call("noteToMemory", ArgsEmpty), Call("noteToDb", ArgsBroken),
              Call("deleteNote", ArgsEmpty) }

\* the tool_calls of one message of the model API: the ids are the API's,
\* one for each call of the message, here the numbers from first on
ToolCalls(cs, first) ==
    [i \in 1..Len(cs) |->
        [id |-> first + i - 1, name |-> cs[i].name, arguments |-> cs[i].arguments]]

ContentChoices == { EmptyStr, <<"ok">> }

----------------------------------------------------------------------------
(* Messages *)

UserMessage(text) ==
    [role |-> "user", content |-> text, tool_calls |-> <<>>, tool_call_id |-> 0]

SystemMessage(text) ==
    [role |-> "system", content |-> text, tool_calls |-> <<>>, tool_call_id |-> 0]

AssistantMessage(text, toolCalls) ==
    [role |-> "assistant", content |-> text, tool_calls |-> toolCalls,
     tool_call_id |-> 0]

toolCallMessage(toolCall, text) ==
    [role |-> "tool", content |-> text, tool_calls |-> <<>>,
     tool_call_id |-> toolCall.id]

----------------------------------------------------------------------------
(* Memory tiers *)

\* readNotesFromMemory with the newest note first: a faulty variant
readNotesFromMemoryNewestFirst(notes) ==
    join([i \in 1..Len(notes) |-> <<"- ">> \o notes[Len(notes) + 1 - i]], <<Newline>>)

\* readNotesFromMemory / noteMemoryList
readNotesFromMemory(notes) ==
    join([i \in 1..Len(notes) |-> <<"- ">> \o notes[i]], <<Newline>>)

\* appendFileSync that replaces the content (fs.writeFileSync): a faulty variant
writeFileSync(file, note) ==
    [file EXCEPT !.exists = TRUE, !.content = note \o <<Newline>>]

\* fs.appendFileSync("notes.txt", note + "\n"): creates the file when absent
appendFileSync(file, note) ==
    [file EXCEPT !.exists = TRUE, !.content = @ \o note \o <<Newline>>]

\* RenderPrompt that puts the rows of the memories table into the database
\* part of the prompt: a faulty variant
RenderPromptWithDb(a, notes, file) ==
    CASE a = "memory" ->
            <<"Here is your list of notes:">> \o readNotesFromMemory(notes)
      [] a = "file" ->
            <<"Short Term Memory:">> \o readNotesFromMemory(notes)
            \o <<"Long Term Memory:">> \o file.content
      [] a = "vector" ->
            <<"Short Term Memory:">> \o readNotesFromMemory(notes)
            \o <<"Long Term Memory (File):">> \o file.content
            \o <<"Long Term Memory (Database):">> \o join(db, <<Newline>>)

\* RenderPrompt that leaves readNotesFromFile() out: a faulty variant
RenderPromptWithoutFile(a, notes, file) ==
    CASE a = "memory" ->
            <<"Here is your list of notes:">> \o readNotesFromMemory(notes)
      [] a = "file" ->
            <<"Short Term Memory:">> \o readNotesFromMemory(notes)
            \o <<"Long Term Memory:">>
      [] a = "vector" ->
            <<"Short Term Memory:">> \o readNotesFromMemory(notes)
            \o <<"Long Term Memory (File):">>
            \o <<"Long Term Memory (Database):">>

\* the system prompt for the notes and file content the turn finds
RenderPrompt(a, notes, file) ==
    CASE a = "memory" ->
            <<"Here is your list of notes:">> \o readNotesFromMemory(notes)
      [] a = "file" ->
            <<"Short Term Memory:">> \o readNotesFromMemory(notes)
            \o <<"Long Term Memory:">> \o file.content
      [] a = "vector" ->
            <<"Short Term Memory:">> \o readNotesFromMemory(notes)
            \o <<"Long Term Memory (File):">> \o file.content
            \o <<"Long Term Memory (Database):">>

\* a context that is rendered without reading notes.txt: a faulty variant
ReadsFileNever(a) == FALSE

ReadsFile(a) == a \in {"file", "vector"}

\* retrieveMemories(query): the TopK rows most similar to the query, most
\* similar first; a row is similar to the query when its content is the
\* query text, and rows of equal similarity come in insertion order.
TopK == 2

Matching(rows, query) == SelectSeq(rows, LAMBDA r : r = query)
Others(rows, query) == SelectSeq(rows, LAMBDA r : r # query)

retrieveMemories(rows, query) ==
    LET ranked == Matching(rows, query) \o Others(rows, query)
    IN  SubSeq(ranked, 1, IF Len(ranked) < TopK THEN Len(ranked) ELSE TopK)

\* readNotesFromDb: memories.map((m) => m.content).join("\n")
readNotesFromDb(rows, query) == join(retrieveMemories(rows, query), <<Newline>>)

----------------------------------------------------------------------------
(* Tool dispatch *)

\* states of the callback of one tool call
Awaiting == {"embed", "insert", "retrieve"}     \* suspended at an await
Rejected == {"threw", "failed"}                 \* SyntaxError / executor error

TierWrite(toolCall, tier, note) == [id |-> toolCall.id, tier |-> tier, note |-> note]

\* The body of the switch for one tool call, up to its return, its throw or
\* its first await.  st carries chatMemory, noteMemory, notes.txt and the
\* states of the callbacks run so far.
RunCallback(a, toolCall, st) ==
    LET p == JSONparse(toolCall.arguments)
        note == Prop(p.value, "note")
        end(status) == [st EXCEPT !.task = Append(@, status)]
    IN  IF toolCall.name \notin MemoryToolTypes(a) THEN end("done")
        ELSE IF ~p.ok THEN end("threw")
        ELSE CASE toolCall.name \in {"addNote", "noteToMemory"} ->
                    [st EXCEPT
                        !.notes = Append(@, note),
                        !.writes = Append(@, TierWrite(toolCall, "memory", note)),
                        !.chat = Append(@, toolCallMessage(toolCall,
                                    <<"Note added to memory: ">> \o note)),
                        !.task = Append(@, "done")]
               [] toolCall.name = "noteToFile" ->
                    IF ~st.file.writable THEN end("failed")
                    ELSE [st EXCEPT
                        !.file = appendFileSync(@, note),
                        !.writes = Append(@, TierWrite(toolCall, "file", note)),
                        !.chat = Append(@, toolCallMessage(toolCall,
                                    <<"Note added to file: ">> \o note)),
                        !.task = Append(@, "done")]
               [] toolCall.name = "noteToDb" -> end("embed")
               [] toolCall.name = "notesFromDb" -> end("retrieve")

\* tool_calls.forEach(...) of the note and file agents: a throw ends the loop
RECURSIVE forEach(_, _, _)
forEach(a, toolCalls, st) ==
    IF toolCalls = <<>> THEN st
    ELSE LET next == RunCallback(a, Head(toolCalls), st)
         IN  IF next.task[Len(next.task)] \in Rejected
             THEN [next EXCEPT !.task = @ \o [i \in 1..(Len(toolCalls) - 1) |-> "unreached"]]
             ELSE forEach(a, Tail(toolCalls), next)

\* tool_calls.map(async ...) of the vector agent: every callback is started
RECURSIVE map(_, _, _)
map(a, toolCalls, st) ==
    IF toolCalls = <<>> THEN st
    ELSE map(a, Tail(toolCalls), RunCallback(a, Head(toolCalls), st))

\* await Promise.all(promises), or the return of forEach
PromiseAll(tasks) ==
    IF \E i \in 1..Len(tasks) : tasks[i] \in Rejected THEN "rejected"
    ELSE IF \E i \in 1..Len(tasks) : tasks[i] \in Awaiting THEN "pending"
    ELSE "resolved"

\* the ids of the tool calls whose function the loop has called and now
\* awaits, in the order of the calls
NewlyRunning(toolCalls, tasksBefore, tasksAfter) ==
    LET started == SelectSeq([i \in 1..Len(toolCalls) |-> i],
                        LAMBDA i : tasksBefore[i] = "waiting" /\ tasksAfter[i] = "running")
    IN  [k \in 1..Len(started) |-> toolCalls[started[k]].id]

\* the ids of the tool calls whose case of the switch got past JSON.parse
\* and called its helper (addNoteToMemory, addNoteToFile, addNoteToDb,
\* readNotesFromDb), in the order of the calls
MemoryExecuted(a, toolCalls, tasks) ==
    LET ran == SelectSeq([i \in 1..Len(toolCalls) |-> i],
                    LAMBDA i : /\ toolCalls[i].name \in MemoryToolTypes(a)
                               /\ JSONparse(toolCalls[i].arguments).ok
                               /\ tasks[i] # "unreached")
    IN  [k \in 1..Len(ran) |-> toolCalls[ran[k]].id]

Request(kind, tools, system, messages, t) ==
    [kind |-> kind, tools |-> tools, system |-> system, messages |-> messages,
     turn |-> t]

Response(kind, message, t) == [kind |-> kind, message |-> message, turn |-> t]

\* AfterDispatch with a second API call whose system message is rendered
\* again from the notes as the tool calls left them: a faulty variant
AfterDispatchRerendering(chat, tasks) ==
    LET outcome == PromiseAll(tasks)
    IN  IF pc \notin {"decision", "dispatch"} THEN [pc |-> pc, requests |-> requests]
        ELSE IF outcome = "rejected" THEN [pc |-> "failed", requests |-> requests]
        ELSE IF outcome = "pending" THEN [pc |-> "dispatch", requests |-> requests]
        ELSE [pc |-> "final",
              requests |-> Append(requests,
                              Request("final", FALSE,
                                      RenderPrompt(agent, noteMemory', notesFile'),
                                      chat, turn))]

\* What the agent function does once the callbacks have made a step: it goes
\* on to the second API call when all have returned, it ends when one threw.
AfterDispatch(chat, tasks) ==
    LET outcome == PromiseAll(tasks)
    IN  IF pc \notin {"decision", "dispatch"} THEN [pc |-> pc, requests |-> requests]
        ELSE IF outcome = "rejected" THEN [pc |-> "failed", requests |-> requests]
        ELSE IF outcome = "pending" THEN [pc |-> "dispatch", requests |-> requests]
        ELSE [pc |-> "final",
              requests |-> Append(requests,
                              Request("final", FALSE, systemPrompt, chat, turn))]

----------------------------------------------------------------------------
(* The memory agents: memoryAgent() *)

File(exists, writable, content) ==
    [exists |-> exists, writable |-> writable, content |-> content]

\* notes.txt as a loop instance may find it: missing, left by an earlier
\* session, empty, or not writable
InitialFiles(a) ==
    IF a = "memory" THEN { File(FALSE, TRUE, EmptyStr) }
    ELSE { File(FALSE, TRUE, EmptyStr),
           File(TRUE, TRUE, <<"n0", Newline>>),
           File(TRUE, FALSE, <<"n0", Newline>>) }

MemoryAgents == {"memory", "file", "vector"}

InitMemory ==
    /\ agent \in MemoryAgents
    /\ pc = "input"
    /\ chatMemory = <<>>
    /\ noteMemory = <<>>
    /\ notesFile \in InitialFiles(agent)
    /\ db = <<>>
    /\ systemPrompt = EmptyStr
    /\ calls = <<>>
    /\ task = <<>>
    /\ turn = 0
    /\ nextId = 1
    /\ rlClosed = FALSE
    /\ requests = <<>>
    /\ responses = <<>>
    /\ tierWrites = <<>>
    /\ executed = <<>>
    /\ turnStart = 0
    /\ fileAtTurnStart = notesFile
    /\ oldCalls = <<>>
    /\ oldTask = <<>>
    /\ planningHistory = <<>>
    /\ iterations = 0
    /\ planResult = EmptyStr
    /\ planPc = "idle"
    /\ planCalls = <<>>
    /\ planTask = <<>>
    /\ budgetArgs = NoArgs
    /\ budgetResult = NoResult

\* ReadInput that also keeps the user input as a short-term note: a faulty
\* variant
ReadInputRemembering(userInput) ==
    /\ pc = "input"
    /\ agent \in MemoryAgents
    /\ IF toLowerCase(userInput) = ExitWord
       THEN /\ pc' = "exited"
            /\ rlClosed' = TRUE
            /\ UNCHANGED <<chatMemory, systemPrompt, turn, requests, turnStart, fileAtTurnStart,
                           noteMemory>>
       ELSE /\ turn < MaxTurns
            /\ turn' = turn + 1
            /\ noteMemory' = Append(noteMemory, userInput)
            /\ UNCHANGED rlClosed
            /\ IF ReadsFile(agent) /\ ~notesFile.exists
               THEN /\ pc' = "failed"
                    /\ turnStart' = Len(chatMemory)
                    /\ fileAtTurnStart' = notesFile
                    /\ UNCHANGED <<chatMemory, systemPrompt, requests>>
               ELSE LET prompt == RenderPrompt(agent, noteMemory, notesFile)
                        chat == Append(chatMemory, UserMessage(userInput))
                    IN  /\ systemPrompt' = prompt
                        /\ chatMemory' = chat
                        /\ turnStart' = Len(chatMemory)
                        /\ fileAtTurnStart' = notesFile
                        /\ requests' = Append(requests,
                                Request("decision", TRUE, prompt, chat, turn + 1))
                        /\ pc' = "decision"
    /\ UNCHANGED <<planVars, budgetVars, endedVars, agent, notesFile, db, calls, task, nextId,
                   responses, tierWrites, executed>>

\* askQuestion resolves: the exit test, the system prompt, the user message
\* and the first API call
ReadInput(userInput) ==
    /\ pc = "input"
    /\ agent \in MemoryAgents
    /\ IF toLowerCase(userInput) = ExitWord
       THEN /\ pc' = "exited"
            /\ rlClosed' = TRUE
            /\ UNCHANGED <<chatMemory, systemPrompt, turn, requests, turnStart, fileAtTurnStart>>
       ELSE /\ turn < MaxTurns
            /\ turn' = turn + 1
            /\ UNCHANGED rlClosed
            /\ IF ReadsFile(agent) /\ ~notesFile.exists
               THEN \* fs.readFileSync throws ENOENT
                    /\ pc' = "failed"
                    /\ turnStart' = Len(chatMemory)
                    /\ fileAtTurnStart' = notesFile
                    /\ UNCHANGED <<chatMemory, systemPrompt, requests>>
               ELSE LET prompt == RenderPrompt(agent, noteMemory, notesFile)
                        chat == Append(chatMemory, UserMessage(userInput))
                    IN  /\ systemPrompt' = prompt
                        /\ chatMemory' = chat
                        /\ turnStart' = Len(chatMemory)
                        /\ fileAtTurnStart' = notesFile
                        /\ requests' = Append(requests,
                                Request("decision", TRUE, prompt, chat, turn + 1))
                        /\ pc' = "decision"
    /\ UNCHANGED <<planVars, budgetVars, endedVars, agent, noteMemory, notesFile, db, calls, task, nextId,
                   responses, tierWrites, executed>>

\* the first API call resolves with firstMessage, whose tool_calls is an
\* array (listed) or undefined: the message is pushed; under
\* if (firstMessage.tool_calls), which an empty array passes as well, its
\* tool calls are dispatched and the second API call is made when they are
\* done; with tool_calls undefined the turn is over
DecisionResponse(content, listed, toolCalls) ==
    /\ pc = "decision"
    /\ agent \in MemoryAgents
    /\ listed \/ toolCalls = <<>>
    /\ nextId + Len(toolCalls) - 1 <= MaxCalls
    /\ LET firstMessage == AssistantMessage(content, toolCalls)
           st0 == [chat |-> Append(chatMemory, firstMessage), notes |-> noteMemory,
                   file |-> notesFile, writes |-> tierWrites, task |-> <<>>]
           st == IF agent = "vector" THEN map(agent, toolCalls, st0)
                 ELSE forEach(agent, toolCalls, st0)
           after == AfterDispatch(st.chat, st.task)
       IN  /\ chatMemory' = st.chat
           /\ noteMemory' = st.notes
           /\ notesFile' = st.file
           /\ tierWrites' = st.writes
           /\ executed' = executed \o MemoryExecuted(agent, toolCalls, st.task)
           /\ calls' = toolCalls
           /\ task' = st.task
           /\ nextId' = nextId + Len(toolCalls)
           /\ responses' = Append(responses, Response("decision", firstMessage, turn))
           /\ IF listed
              THEN pc' = after.pc /\ requests' = after.requests
              ELSE pc' = "input" /\ UNCHANGED requests
    /\ UNCHANGED <<planVars, budgetVars, endedVars, agent, db, systemPrompt, turn, rlClosed, turnStart, fileAtTurnStart>>

\* an API call rejects: memoryAgent() rejects
RequestFails ==
    /\ pc \in {"decision", "final"}
    /\ agent \in MemoryAgents
    /\ pc' = "failed"
    /\ UNCHANGED <<planVars, budgetVars, endedVars, agent, chatMemory, noteMemory, notesFile, db, systemPrompt,
                   calls, task, turn, nextId, rlClosed, requests, responses,
                   tierWrites, executed, turnStart, fileAtTurnStart>>

\* the second API call resolves with finalMessage
FinalResponse(content) ==
    /\ pc = "final"
    /\ agent \in MemoryAgents
    /\ chatMemory' = IF content # EmptyStr
                     THEN Append(chatMemory, AssistantMessage(content, <<>>))
                     ELSE chatMemory
    /\ responses' = Append(responses,
                        Response("final", AssistantMessage(content, <<>>), turn))
    /\ pc' = "input"
    /\ UNCHANGED <<planVars, budgetVars, endedVars, agent, noteMemory, notesFile, db, systemPrompt, calls, task,
                   turn, nextId, rlClosed, requests, tierWrites, executed, turnStart, fileAtTurnStart>>

\* a callback of the vector agent goes on after its await; the agent
\* function goes on when that settles Promise.all
Resume(i, status, chat, rows, writes) ==
    LET tasks == [task EXCEPT ![i] = status]
        after == AfterDispatch(chat, tasks)
    IN  /\ task' = tasks
        /\ chatMemory' = chat
        /\ db' = rows
        /\ tierWrites' = writes
        /\ pc' = after.pc
        /\ requests' = after.requests
        /\ UNCHANGED <<planVars, budgetVars, endedVars, agent, noteMemory, notesFile, systemPrompt, calls, turn,
                       nextId, rlClosed, responses, executed, turnStart, fileAtTurnStart>>

NoteOf(toolCall) == Prop(JSONparse(toolCall.arguments).value, "note")
QueryOf(toolCall) == Prop(JSONparse(toolCall.arguments).value, "query")

\* addNoteToDb: generateEmbeddings settles; on success db.insert is called
EmbeddingDone(i, ok) ==
    /\ i \in 1..Len(task)
    /\ task[i] = "embed"
    /\ Resume(i, IF ok THEN "insert" ELSE "failed", chatMemory, db, tierWrites)

\* addNoteToDb: db.insert settles; on success the tool message is pushed
InsertDone(i, ok) ==
    /\ i \in 1..Len(task)
    /\ task[i] = "insert"
    /\ IF ok
       THEN Resume(i, "done",
                Append(chatMemory, toolCallMessage(calls[i],
                    <<"Note added to database: ">> \o NoteOf(calls[i]))),
                Append(db, NoteOf(calls[i])),
                Append(tierWrites, TierWrite(calls[i], "db", NoteOf(calls[i]))))
       ELSE Resume(i, "failed", chatMemory, db, tierWrites)

\* readNotesFromDb: retrieveMemories settles
RetrieveDone(i, ok) ==
    /\ i \in 1..Len(task)
    /\ task[i] = "retrieve"
    /\ IF ok
       THEN Resume(i, "done",
                Append(chatMemory, toolCallMessage(calls[i],
                    <<"Notes from database: ">>
                    \o readNotesFromDb(db, QueryOf(calls[i])))),
                db, tierWrites)
       ELSE Resume(i, "failed", chatMemory, db, tierWrites)

Decisions ==
    UNION { [1..n -> ToolChoices(agent)] : n \in 0..MaxCalls }

\* in these runs the API gives every tool call an id that no call had
\* before; the guard of a decision step stands before its inputs, so that
\* these are drawn only where the step reads them
Next ==
    \/ \E userInput \in UserInputs : ReadInput(userInput)
    \/ /\ pc = "decision"
       /\ \E content \in ContentChoices, listed \in BOOLEAN :
            \E choices \in (IF listed THEN Decisions ELSE { <<>> }) :
                DecisionResponse(content, listed, ToolCalls(choices, nextId))
    \/ RequestFails
    \/ \E content \in ContentChoices : FinalResponse(content)
    \/ \E i \in 1..MaxCalls, ok \in BOOLEAN : EmbeddingDone(i, ok)
    \/ \E i \in 1..MaxCalls, ok \in BOOLEAN : InsertDone(i, ok)
    \/ \E i \in 1..MaxCalls, ok \in BOOLEAN : RetrieveDone(i, ok)

Spec == InitMemory /\ [][Next]_vars

\* in these runs every message of the model has the same text
IdContents == { <<"ok">> }

\* the ids of the tool calls are the API's and the program does not look at
\* them: in these runs the ids of one message differ, and a message may
\* carry ids that calls of earlier messages had
NextIds ==
    \/ \E userInput \in UserInputs : ReadInput(userInput)
    \/ /\ pc = "decision"
       /\ \E content \in IdContents, listed \in BOOLEAN, first \in 1..nextId :
            \E choices \in (IF listed THEN Decisions ELSE { <<>> }) :
                DecisionResponse(content, listed, ToolCalls(choices, first))
    \/ RequestFails
    \/ \E content \in IdContents : FinalResponse(content)
    \/ \E i \in 1..MaxCalls, ok \in BOOLEAN : EmbeddingDone(i, ok)
    \/ \E i \in 1..MaxCalls, ok \in BOOLEAN : InsertDone(i, ok)
    \/ \E i \in 1..MaxCalls, ok \in BOOLEAN : RetrieveDone(i, ok)

SpecIds == InitMemory /\ [][NextIds]_vars

----------------------------------------------------------------------------
(* Several loop instances on one notes.txt and one memories table: when a  *)
(* call of memoryAgent() has ended, another one is made; and other         *)
(* instances that run at the same time append their notes to the file.     *)
(* tierWrites keeps the writes of all the instances.  A callback of a call  *)
(* that has ended goes on when its promise settles: it writes the table,   *)
(* and what it pushes goes to the chatMemory of the ended call, which      *)
(* nothing reads any more.                                                 *)

\* what is kept of the call that ends: nothing when all its callbacks have
\* returned or thrown; its tool calls and their states when a callback is
\* still suspended at an await, which the end of memoryAgent() does not
\* cancel
StillPending(kept, ending, tasks) ==
    IF \E i \in 1..Len(tasks) : tasks[i] \in Awaiting THEN kept \o ending ELSE kept

\* the state of a callback of an ended call: where it is suspended, or
\* "settled" when it has returned or thrown
EndedState(status) == IF status \in Awaiting THEN status ELSE "settled"

\* NewInstance that finds the notes of the instance before: a faulty variant
NewInstanceKeepingNotes(a) ==
    /\ pc \in {"exited", "failed"}
    /\ agent \in MemoryAgents
    /\ a \in MemoryAgents
    /\ agent' = a
    /\ pc' = "input"
    /\ chatMemory' = <<>>
    /\ noteMemory' = noteMemory
    /\ systemPrompt' = EmptyStr
    /\ calls' = <<>>
    /\ task' = <<>>
    /\ turn' = 0
    /\ rlClosed' = FALSE
    /\ requests' = <<>>
    /\ responses' = <<>>
    /\ turnStart' = 0
    /\ fileAtTurnStart' = notesFile
    /\ oldCalls' = StillPending(oldCalls, calls, task)
    /\ oldTask' = StillPending(oldTask, [i \in 1..Len(task) |-> EndedState(task[i])], task)
    /\ UNCHANGED <<notesFile, db, nextId, tierWrites, executed,
                   planVars, budgetVars>>

\* memoryAgent() is called again: new chatMemory, noteMemory and readline
NewInstance(a) ==
    /\ pc \in {"exited", "failed"}
    /\ agent \in MemoryAgents
    /\ a \in MemoryAgents
    /\ agent' = a
    /\ pc' = "input"
    /\ chatMemory' = <<>>
    /\ noteMemory' = <<>>
    /\ systemPrompt' = EmptyStr
    /\ calls' = <<>>
    /\ task' = <<>>
    /\ turn' = 0
    /\ rlClosed' = FALSE
    /\ requests' = <<>>
    /\ responses' = <<>>
    /\ turnStart' = 0
    /\ fileAtTurnStart' = notesFile
    /\ oldCalls' = StillPending(oldCalls, calls, task)
    /\ oldTask' = StillPending(oldTask, [i \in 1..Len(task) |-> EndedState(task[i])], task)
    /\ UNCHANGED <<notesFile, db, nextId, tierWrites, executed,
                   planVars, budgetVars>>

\* a callback of an ended call goes on after its await: Promise.all of that
\* call has settled, so nothing else goes on with it; the ended calls are
\* kept as long as one of their callbacks is suspended
ResumeEnded(i, status, rows, writes) ==
    LET tasks == [oldTask EXCEPT ![i] = EndedState(status)]
    IN  /\ oldCalls' = StillPending(<<>>, oldCalls, tasks)
        /\ oldTask' = StillPending(<<>>, tasks, tasks)
        /\ db' = rows
        /\ tierWrites' = writes
        /\ UNCHANGED <<planVars, budgetVars, agent, pc, chatMemory, noteMemory,
                       notesFile, systemPrompt, calls, task, turn, nextId, rlClosed,
                       requests, responses, executed, turnStart, fileAtTurnStart>>

\* addNoteToDb of an ended call: generateEmbeddings settles
EndedEmbeddingDone(i, ok) ==
    /\ agent \in MemoryAgents
    /\ i \in 1..Len(oldTask)
    /\ oldTask[i] = "embed"
    /\ ResumeEnded(i, IF ok THEN "insert" ELSE "failed", db, tierWrites)

\* addNoteToDb of an ended call: db.insert settles
EndedInsertDone(i, ok) ==
    /\ agent \in MemoryAgents
    /\ i \in 1..Len(oldTask)
    /\ oldTask[i] = "insert"
    /\ IF ok
       THEN ResumeEnded(i, "done", Append(db, NoteOf(oldCalls[i])),
                Append(tierWrites, TierWrite(oldCalls[i], "db", NoteOf(oldCalls[i]))))
       ELSE ResumeEnded(i, "failed", db, tierWrites)

\* readNotesFromDb of an ended call: retrieveMemories settles
EndedRetrieveDone(i, ok) ==
    /\ agent \in MemoryAgents
    /\ i \in 1..Len(oldTask)
    /\ oldTask[i] = "retrieve"
    /\ ResumeEnded(i, IF ok THEN "done" ELSE "failed", db, tierWrites)

ForeignNote == <<"nx">>

ForeignNotes(content) ==
    Cardinality({ i \in 1..Len(content) : content[i] = ForeignNote[1] })

\* addNoteToFile of another instance that runs at the same time
OtherInstanceAppends ==
    /\ agent \in MemoryAgents
    /\ notesFile.writable
    /\ ForeignNotes(notesFile.content) < MaxForeignNotes
    /\ notesFile' = appendFileSync(notesFile, ForeignNote)
    /\ UNCHANGED <<planVars, budgetVars, endedVars, agent, pc, chatMemory, noteMemory, db, systemPrompt, calls,
                   task, turn, nextId, rlClosed, requests, responses, tierWrites, executed,
                   turnStart, fileAtTurnStart>>

\* in these runs every message of the model has the same text
SessionContents == { <<"ok">> }

NextSessions ==
    \/ \E userInput \in UserInputs : ReadInput(userInput)
    \/ /\ pc = "decision"
       /\ \E content \in SessionContents, listed \in BOOLEAN :
            \E choices \in (IF listed THEN Decisions ELSE { <<>> }) :
                DecisionResponse(content, listed, ToolCalls(choices, nextId))
    \/ RequestFails
    \/ \E content \in SessionContents : FinalResponse(content)
    \/ \E i \in 1..MaxCalls, ok \in BOOLEAN : EmbeddingDone(i, ok)
    \/ \E i \in 1..MaxCalls, ok \in BOOLEAN : InsertDone(i, ok)
    \/ \E i \in 1..MaxCalls, ok \in BOOLEAN : RetrieveDone(i, ok)
    \/ \E a \in MemoryAgents : NewInstance(a)
    \/ \E i \in 1..MaxCalls, ok \in BOOLEAN : EndedEmbeddingDone(i, ok)
    \/ \E i \in 1..MaxCalls, ok \in BOOLEAN : EndedInsertDone(i, ok)
    \/ \E i \in 1..MaxCalls, ok \in BOOLEAN : EndedRetrieveDone(i, ok)
    \/ OtherInstanceAppends

SpecSessions == InitMemory /\ [][NextSessions]_vars

----------------------------------------------------------------------------
(* The weather and news agents: weatherAgent(state), newsAgent(state).     *)
(* chatMemory holds state.conversationHistory; the recursive call at the  *)
(* end of a turn is the next round of the loop.                            *)

LookupAgents == {"weather", "news"}

\* WeatherAgentTools / NewsAgentTools
LookupTools(a) == IF a = "weather" THEN {"get_weather"} ELSE {"get_news"}

LookupChoices(a) ==
    IF a = "weather"
    THEN { Call("get_weather", ArgsLocation), Call("get_weather", ArgsEmpty),
           Call("get_weather", ArgsBroken), Call("get_forecast", ArgsLocation) }
    ELSE { Call("get_news", ArgsQ), Call("get_news", ArgsEmpty),
           Call("get_news", ArgsBroken), Call("get_weather", ArgsLocation) }

\* the fixed system message of the agent
SystemContent(a) ==
    IF a = "weather" THEN <<"You are a helpful weather assistant.">>
    ELSE <<"You are a helpful news assistant">>

\* how the HTTP call of the tool function may end.  get_weather: the call
\* resolves with weather data that names a location, or it rejects, and so
\* does get_weather.  get_news: the call resolves with articles ("ok"),
\* with no article or a status other than success ("empty"), it rejects
\* with an axios error ("error"), or something else is thrown inside the
\* try block ("fault": an error that is no axios error, or a response that
\* the formatting of the articles cannot read); get_news catches both.
WeatherLocations == { <<"San Francisco">>, <<"SF">> }

Outcome(kind, name) == [kind |-> kind, name |-> name]

LookupOutcomes(a) ==
    IF a = "weather"
    THEN { Outcome("ok", name) : name \in WeatherLocations }
            \cup { Outcome("reject", EmptyStr) }
    ELSE { Outcome(kind, EmptyStr) : kind \in {"ok", "empty", "error", "fault"} }

\* the text the tool function resolves with: get_weather writes
\* weatherData.location.name of the response, never its argument
LookupResult(a, toolCall, outcome) ==
    IF a = "weather" THEN <<"Weather Update for ">> \o outcome.name
    ELSE CASE outcome.kind = "ok" -> <<"Found articles. Here are the top 10:">>
           [] outcome.kind = "empty" ->
                <<"No news articles found for the specified criteria.">>
           [] outcome.kind = "error" -> <<"Error fetching news: ">>
           [] OTHER -> <<"An error occurred while fetching news">>

\* for (const toolCall of tool_calls) from the i-th call on, up to the next
\* await, a throw of JSON.parse, or the end of the loop
RECURSIVE forOf(_, _, _, _)
forOf(a, toolCalls, i, tasks) ==
    IF i > Len(toolCalls) THEN tasks
    ELSE IF toolCalls[i].name \notin LookupTools(a)
         THEN forOf(a, toolCalls, i + 1, [tasks EXCEPT ![i] = "skipped"])
    ELSE IF ~JSONparse(toolCalls[i].arguments).ok
         THEN [tasks EXCEPT ![i] = "threw"]
    ELSE [tasks EXCEPT ![i] = "running"]

\* where the agent function is after the loop has run as far as it can:
\* ended by a throw, suspended in a tool function, or at the final API call
AfterLoop(history, tasks) ==
    IF \E i \in 1..Len(tasks) : tasks[i] \in Rejected
    THEN [pc |-> "failed", requests |-> requests]
    ELSE IF \E i \in 1..Len(tasks) : tasks[i] = "running"
    THEN [pc |-> "dispatch", requests |-> requests]
    ELSE [pc |-> "final",
          requests |-> Append(requests,
                          Request("final", FALSE, SystemContent(agent), history, turn))]

InitLookup ==
    /\ agent \in LookupAgents
    /\ pc = "input"
    /\ chatMemory = <<>>
    /\ noteMemory = <<>>
    /\ notesFile = File(FALSE, TRUE, EmptyStr)
    /\ db = <<>>
    /\ systemPrompt = SystemContent(agent)
    /\ calls = <<>>
    /\ task = <<>>
    /\ turn = 0
    /\ nextId = 1
    /\ rlClosed = FALSE
    /\ requests = <<>>
    /\ responses = <<>>
    /\ tierWrites = <<>>
    /\ executed = <<>>
    /\ turnStart = 0
    /\ fileAtTurnStart = notesFile
    /\ oldCalls = <<>>
    /\ oldTask = <<>>
    /\ planningHistory = <<>>
    /\ iterations = 0
    /\ planResult = EmptyStr
    /\ planPc = "idle"
    /\ planCalls = <<>>
    /\ planTask = <<>>
    /\ budgetArgs = NoArgs
    /\ budgetResult = NoResult

\* askQuestion resolves: the exit test, the user message, the first API call
AgentInput(userInput) ==
    /\ pc = "input"
    /\ agent \in LookupAgents
    /\ IF toLowerCase(userInput) = ExitWord
       THEN /\ pc' = "exited"
            /\ rlClosed' = TRUE
            /\ UNCHANGED <<chatMemory, turn, requests, turnStart, fileAtTurnStart>>
       ELSE /\ turn < MaxTurns
            /\ turn' = turn + 1
            /\ chatMemory' = Append(chatMemory, UserMessage(userInput))
            /\ turnStart' = Len(chatMemory)
            /\ fileAtTurnStart' = notesFile
            /\ requests' = Append(requests,
                    Request("decision", TRUE, SystemContent(agent),
                            Append(chatMemory, UserMessage(userInput)), turn + 1))
            /\ pc' = "decision"
            /\ UNCHANGED rlClosed
    /\ UNCHANGED <<planVars, budgetVars, endedVars, agent, noteMemory, notesFile, db, systemPrompt, calls, task,
                   nextId, responses, tierWrites, executed>>

\* the first API call resolves: its message is not pushed; its tool calls
\* are run one after the other, then the final API call is made
AgentDecision(content, choices) ==
    /\ pc = "decision"
    /\ agent \in LookupAgents
    /\ nextId + Len(choices) - 1 <= MaxCalls
    /\ LET toolCalls == ToolCalls(choices, nextId)
           tasks == forOf(agent, toolCalls, 1, [i \in 1..Len(toolCalls) |-> "waiting"])
           after == AfterLoop(chatMemory, tasks)
       IN  /\ calls' = toolCalls
           /\ task' = tasks
           /\ executed' = executed \o NewlyRunning(toolCalls,
                    [i \in 1..Len(toolCalls) |-> "waiting"], tasks)
           /\ nextId' = nextId + Len(choices)
           /\ responses' = Append(responses,
                    Response("decision", AssistantMessage(content, toolCalls), turn))
           /\ pc' = after.pc
           /\ requests' = after.requests
    /\ UNCHANGED <<planVars, budgetVars, endedVars, agent, chatMemory, noteMemory, notesFile, db, systemPrompt,
                   turn, rlClosed, tierWrites, turnStart, fileAtTurnStart>>

\* the awaited tool function settles: its text is pushed as an assistant
\* message and the loop goes on with the next tool call
AgentToolSettles(i, outcome) ==
    /\ pc = "dispatch"
    /\ agent \in LookupAgents
    /\ i \in 1..Len(task)
    /\ task[i] = "running"
    /\ outcome \in LookupOutcomes(agent)
    /\ IF outcome.kind = "reject"
       THEN /\ task' = [task EXCEPT ![i] = "failed"]
            /\ UNCHANGED executed
            /\ pc' = "failed"
            /\ UNCHANGED <<chatMemory, requests>>
       ELSE LET history == Append(chatMemory,
                              AssistantMessage(LookupResult(agent, calls[i], outcome), <<>>))
                tasks == forOf(agent, calls, i + 1, [task EXCEPT ![i] = "done"])
                after == AfterLoop(history, tasks)
            IN  /\ chatMemory' = history
                /\ task' = tasks
                /\ executed' = executed \o NewlyRunning(calls,
                        [task EXCEPT ![i] = "done"], tasks)
                /\ pc' = after.pc
                /\ requests' = after.requests
    /\ UNCHANGED <<planVars, budgetVars, endedVars, agent, noteMemory, notesFile, db, systemPrompt, calls, turn,
                   nextId, rlClosed, responses, tierWrites, turnStart, fileAtTurnStart>>

\* the final API call resolves: its content is pushed, null or not, and the
\* agent calls itself with the state
AgentFinal(content) ==
    /\ pc = "final"
    /\ agent \in LookupAgents
    /\ chatMemory' = Append(chatMemory, AssistantMessage(content, <<>>))
    /\ responses' = Append(responses,
                        Response("final", AssistantMessage(content, <<>>), turn))
    /\ pc' = "input"
    /\ UNCHANGED <<planVars, budgetVars, endedVars, agent, noteMemory, notesFile, db, systemPrompt, calls, task,
                   turn, nextId, rlClosed, requests, tierWrites, executed, turnStart, fileAtTurnStart>>

\* an API call rejects: the agent function rejects
AgentRequestFails ==
    /\ pc \in {"decision", "final"}
    /\ agent \in LookupAgents
    /\ pc' = "failed"
    /\ UNCHANGED <<planVars, budgetVars, endedVars, agent, chatMemory, noteMemory, notesFile, db, systemPrompt,
                   calls, task, turn, nextId, rlClosed, requests, responses,
                   tierWrites, executed, turnStart, fileAtTurnStart>>

LookupDecisions ==
    UNION { [1..n -> LookupChoices(agent)] : n \in 0..MaxCalls }

NextLookup ==
    \/ \E userInput \in UserInputs : AgentInput(userInput)
    \/ /\ pc = "decision"
       /\ \E content \in ContentChoices, choices \in LookupDecisions :
            AgentDecision(content, choices)
    \/ \E i \in 1..MaxCalls, outcome \in LookupOutcomes(agent) :
            AgentToolSettles(i, outcome)
    \/ \E content \in ContentChoices : AgentFinal(content)
    \/ AgentRequestFails

SpecLookup == InitLookup /\ [][NextLookup]_vars

----------------------------------------------------------------------------
(* The travel agent: travelAgent() and travelAgentFunctions.planTrip.      *)
(* chatMemory holds conversationHistory, which starts with the system      *)
(* message.  planTrip is the planning loop the main loop awaits: it makes  *)
(* API calls of its own, with planningHistory as the messages, and they    *)
(* are recorded in requests and responses with the kind "planning" and the *)
(* value of iterations.  SpecTravel is the main loop with the planning     *)
(* loops it starts; SpecPlanTrip is one call of planTrip by itself.  A     *)
(* planning response that names planTrip again is not among the responses  *)
(* modelled.                                                               *)

TRAVEL_AGENT_PROMPT == <<"You are a travel planner assistant.">>

\* the names executeFunction has a case for
TravelAgentTools ==
    {"planTrip", "getFlights", "getHotels", "getAttractions", "getRestaurants",
     "checkBudget", "isTripPlanned"}

TravelChoices ==
    { Call("planTrip", ArgsTrip), Call("planTrip", ArgsBroken),
      Call("getFlights", ArgsLocation), Call("getHotels", ArgsLocation),
      Call("bookTrip", ArgsEmpty) }

\* the rows of @/data/travel.data: a flight to, and a hotel, an attraction
\* and a restaurant in, one city
TravelData(name) ==
    CASE name = "getFlights" -> << [id |-> <<"f1">>, arrivalLocation |-> <<"SF">>] >>
      [] name = "getHotels" -> << [id |-> <<"h1">>, location |-> <<"SF">>] >>
      [] name = "getAttractions" -> << [id |-> <<"a1">>, location |-> <<"SF">>] >>
      [] name = "getRestaurants" -> << [id |-> <<"r1">>, location |-> <<"SF">>] >>

\* the property a search function compares with its argument, which
\* executeFunction reads from the property of the same name of args
SearchKey(name) == IF name = "getFlights" THEN "arrivalLocation" ELSE "location"

\* checkBudget with the strict comparison totalCost < budget: a faulty variant
checkBudgetStrict(totalCost, budget) ==
    [withinBudget |-> totalCost < budget,
     difference |-> budget - totalCost,
     totalCost |-> totalCost,
     budget |-> budget]

checkBudget(totalCost, budget) ==
    [withinBudget |-> totalCost <= budget,
     difference |-> budget - totalCost,
     totalCost |-> totalCost,
     budget |-> budget]

\* isTripPlanned(isPlanned, finalItinerary)
isTripPlanned(isPlanned, finalItinerary) ==
    [isPlanned |-> isPlanned, finalItinerary |-> finalItinerary]

\* the decimal digits of an integer, as JSON.stringify and a template
\* literal write a number
Digit(d) == <<"0", "1", "2", "3", "4", "5", "6", "7", "8", "9">>[d + 1]

RECURSIVE NumToks(_)
NumToks(n) ==
    IF n < 0 THEN <<"-">> \o NumToks(0 - n)
    ELSE IF n < 10 THEN <<Digit(n)>>
    ELSE NumToks(n \div 10) \o <<Digit(n % 10)>>

\* JSON.stringify of an object: the properties that are not undefined
Property(name, text) ==
    IF text = <<Undefined>> THEN <<>> ELSE <<"\"", name, "\":">> \o text

Quoted(text) == IF text = <<Undefined>> THEN text ELSE <<"\"">> \o text \o <<"\"">>

Object(properties) ==
    <<"{">> \o join(SelectSeq(properties, LAMBDA p : p # <<>>), <<",">>) \o <<"}">>

\* a number property of the parsed arguments as text, undefined when the
\* arguments have no such property
NumberText(args, f) == IF f \in DOMAIN args THEN NumToks(args[f]) ELSE <<Undefined>>

\* JSON.stringify of a string, of an array and of an object
JSONstringify(result) ==
    IF result.kind = "string" THEN <<"\"">> \o result.text \o <<"\"">>
    ELSE IF result.kind = "object" THEN result.text
    ELSE <<"[">> \o result.text \o <<"]">>

\* what executeFunction resolves with, for the functions that make no API
\* call: the search functions filter the data, checkBudget compares and
\* subtracts (with an undefined argument the comparison is false and the
\* difference is NaN, which JSON.stringify writes as null), isTripPlanned
\* returns its arguments
executeFunction(toolCall) ==
    LET args == JSONparse(toolCall.arguments).value
    IN  CASE toolCall.name = "isTripPlanned" ->
                LET result == isTripPlanned(Prop(args, "isPlanned"),
                                            Prop(args, "finalItinerary"))
                IN  [kind |-> "object", value |-> result,
                     text |-> Object(<< Property("isPlanned", result.isPlanned),
                                        Property("finalItinerary",
                                                 Quoted(result.finalItinerary)) >>)]
          [] toolCall.name = "checkBudget" ->
                IF {"totalCost", "budget"} \subseteq DOMAIN args
                THEN LET result == checkBudget(args.totalCost, args.budget)
                     IN  [kind |-> "object",
                          text |-> Object(<<
                            Property("withinBudget",
                                IF result.withinBudget THEN <<"true">> ELSE <<"false">>),
                            Property("difference", NumToks(result.difference)),
                            Property("totalCost", NumToks(result.totalCost)),
                            Property("budget", NumToks(result.budget)) >>)]
                ELSE [kind |-> "object",
                      text |-> Object(<<
                            Property("withinBudget", <<"false">>),
                            Property("difference", <<"null">>),
                            Property("totalCost", NumberText(args, "totalCost")),
                            Property("budget", NumberText(args, "budget")) >>)]
          [] toolCall.name \in {"getFlights", "getHotels", "getAttractions",
                                "getRestaurants"} ->
                LET key == SearchKey(toolCall.name)
                    rows == SelectSeq(TravelData(toolCall.name),
                                LAMBDA row : row[key] = Prop(args, key))
                IN  [kind |-> "array",
                     text |-> join([k \in 1..Len(rows) |->
                                Object(<< Property("id", Quoted(rows[k].id)),
                                          Property(key, Quoted(rows[k][key])) >>)],
                              <<",">>)]

\* for (const toolCall of message.tool_calls) from the i-th call on, up to
\* the next await or the throw of JSON.parse or of executeFunction's default
RECURSIVE travelForOf(_, _, _)
travelForOf(toolCalls, i, tasks) ==
    IF i > Len(toolCalls) THEN tasks
    ELSE IF ~JSONparse(toolCalls[i].arguments).ok
         THEN [tasks EXCEPT ![i] = "threw"]
    ELSE IF toolCalls[i].name \notin TravelAgentTools
         THEN [tasks EXCEPT ![i] = "failed"]
    ELSE [tasks EXCEPT ![i] = "running"]

\* the catch block logs the error and the while loop reads the next input
AfterTravelLoop(tasks) ==
    IF \E i \in 1..Len(tasks) : tasks[i] = "running" THEN "dispatch" ELSE "input"

(* planTrip *)

MAX_ITERATIONS == 10

PlanFailureText ==
    <<"Failed to generate a complete trip plan within the maximum number of iterations.">>

\* the arguments planTrip is called with: args.destination, args.budget and
\* args.tripLength of the parsed arguments of the main loop's tool call
PlanInputs == { JSONparse(ArgsTrip).value, JSONparse(ArgsEmpty).value }

\* the system message planningHistory starts with
PlanningPrompt(args) ==
    <<"You are planning a trip to ">> \o Prop(args, "destination")
    \o <<" for ">> \o NumberText(args, "tripLength")
    \o <<" days with a budget of $">> \o NumberText(args, "budget")
    \o <<". Use the provided tools to search for flights, hotels, attractions, and restaurants. Then create a detailed itinerary.">>

\* what one tool call of a planning decision may be
PlanChoices ==
    { Call("isTripPlanned", ArgsPlanned), Call("isTripPlanned", ArgsPlannedToo),
      Call("isTripPlanned", ArgsNotPlanned), Call("isTripPlanned", ArgsBroken),
      Call("getFlights", ArgsLocation), Call("bookTrip", ArgsEmpty) }

\* in these runs every message of the planning model has the same text
PlanContents == { <<"ok">> }

\* a value is truthy: the test of result.isPlanned
Truthy(v) == v \notin { <<"false">>, <<"null">>, <<"0">>, <<Undefined>>, EmptyStr }

\* the while test with <= for <: a faulty variant
WhileTestInclusive(n) == n <= MAX_ITERATIONS

\* while (iterations < MAX_ITERATIONS)
WhileTest(n) == n < MAX_ITERATIONS

\* the test that ends planning without the test of result.isPlanned: a
\* faulty variant
EndsPlanningOnAnyAnswer(toolCall, result) == toolCall.name = "isTripPlanned"

\* toolCall.function.name === IS_TRIP_PLANNED && result.isPlanned
EndsPlanning(toolCall, result) ==
    /\ toolCall.name = "isTripPlanned"
    /\ Truthy(result.value.isPlanned)

\* the planTrip call as the variables hold it
PlanNow ==
    [history |-> planningHistory, iterations |-> iterations, result |-> planResult,
     pc |-> planPc, calls |-> planCalls, task |-> planTask,
     requests |-> requests, executed |-> executed]

\* the while test with iterations = n: the next API call, or the return of
\* the failure text
NextIteration(plan, n) ==
    IF WhileTest(n)
    THEN [plan EXCEPT !.iterations = n, !.pc = "decision",
                      !.requests = Append(@, Request("planning", TRUE,
                                        plan.history[1].content, plan.history, n))]
    ELSE [plan EXCEPT !.iterations = n, !.pc = "returned", !.result = PlanFailureText]

\* planTrip is called: planningHistory, iterations = 0, the while test and
\* the first API call
StartPlan(args, made, ran) ==
    NextIteration([history |-> << SystemMessage(PlanningPrompt(args)) >>,
                   iterations |-> 0, result |-> EmptyStr, pc |-> "call",
                   calls |-> <<>>, task |-> <<>>, requests |-> made,
                   executed |-> ran], 0)

\* where planTrip is after the for loop has run as far as it can: ended by
\* a throw, suspended in executeFunction, or at iterations++
AfterPlanLoop(plan) ==
    IF \E i \in 1..Len(plan.task) : plan.task[i] \in Rejected
    THEN [plan EXCEPT !.pc = "failed"]
    ELSE IF \E i \in 1..Len(plan.task) : plan.task[i] = "running"
    THEN [plan EXCEPT !.pc = "dispatch"]
    ELSE NextIteration(plan, plan.iterations + 1)

\* the planning API call resolves: a message without tool calls is pushed
\* as it is and the iteration ends; with tool calls the assistant message
\* is pushed and the loop over them starts
PlanResponse(plan, message) ==
    LET toolCalls == message.tool_calls
        waiting == [i \in 1..Len(toolCalls) |-> "waiting"]
        tasks == travelForOf(toolCalls, 1, waiting)
    IN  AfterPlanLoop([plan EXCEPT !.history = Append(@, message),
                                   !.calls = toolCalls,
                                   !.task = tasks,
                                   !.executed = @ \o NewlyRunning(toolCalls, waiting, tasks)])

\* the awaited executeFunction of the i-th call resolves with the result:
\* the tool message is pushed; planTrip returns the itinerary when the call
\* ends planning, and otherwise the loop goes on
PlanResult(plan, i, result) ==
    LET history == Append(plan.history,
                      toolCallMessage(plan.calls[i], JSONstringify(result)))
        done == [plan.task EXCEPT ![i] = "done"]
        tasks == travelForOf(plan.calls, i + 1, done)
    IN  IF EndsPlanning(plan.calls[i], result)
        THEN [plan EXCEPT !.history = history, !.task = done, !.pc = "returned",
                          !.result = result.value.finalItinerary]
        ELSE AfterPlanLoop([plan EXCEPT !.history = history, !.task = tasks,
                                !.executed = @ \o NewlyRunning(plan.calls, done, tasks)])

(* the main loop *)

\* the response of the main loop's API call of this turn
DecisionMessage ==
    LET decisions == SelectSeq(responses, LAMBDA r : r.kind = "decision")
    IN  decisions[Len(decisions)].message

\* the index of the tool call the main loop awaits
Awaited(tasks) == CHOOSE i \in 1..Len(tasks) : tasks[i] = "running"

\* the main loop has come to a planTrip call in this step
StartsPlan(toolCalls, before, after) ==
    \E i \in 1..Len(after) :
        /\ after[i] = "running" /\ before[i] # "running"
        /\ toolCalls[i].name = "planTrip"

\* the main loop after the for loop has run as far as it can: the planTrip
\* call it came to in this step, if any, has made its first API call
MainLoop(chat, toolCalls, before, after, plan) ==
    LET ran == plan.executed \o NewlyRunning(toolCalls, before, after)
    IN  [chat |-> chat, task |-> after, pc |-> AfterTravelLoop(after),
         plan |-> IF StartsPlan(toolCalls, before, after)
                  THEN StartPlan(JSONparse(toolCalls[Awaited(after)].arguments).value,
                                 plan.requests, ran)
                  ELSE [plan EXCEPT !.executed = ran]]

\* the awaited executeFunction of the i-th call of the main loop resolves
\* with the text: the assistant message with the tool calls and the tool
\* message are pushed, and the for loop goes on
MainResult(i, text, plan) ==
    LET message == DecisionMessage
        done == [task EXCEPT ![i] = "done"]
    IN  MainLoop(chatMemory \o << AssistantMessage(message.content, calls),
                                  toolCallMessage(calls[i], text) >>,
                 calls, done, travelForOf(calls, i + 1, done), plan)

\* the planTrip call the main loop awaits has ended: with its text the main
\* loop goes on, with its exception the catch block takes over
MainAfterPlan(plan) ==
    IF plan.pc = "failed"
    THEN [chat |-> chatMemory, task |-> [task EXCEPT ![Awaited(task)] = "failed"],
          pc |-> "input", plan |-> plan]
    ELSE MainResult(Awaited(task),
                    JSONstringify([kind |-> "string", text |-> plan.result]), plan)

\* the variables after a step of planTrip: in the travel agent the step
\* goes on in the main loop when planTrip has ended
SetPlan(plan) ==
    /\ planningHistory' = plan.history
    /\ iterations' = plan.iterations
    /\ planResult' = plan.result
    /\ planPc' = plan.pc
    /\ planCalls' = plan.calls
    /\ planTask' = plan.task
    /\ requests' = plan.requests
    /\ executed' = plan.executed

AfterPlanStep(plan) ==
    IF agent = "travel" /\ plan.pc \in {"returned", "failed"}
    THEN \E main \in { MainAfterPlan(plan) } :
             /\ chatMemory' = main.chat
             /\ task' = main.task
             /\ pc' = main.pc
             /\ SetPlan(main.plan)
    ELSE /\ SetPlan(plan)
         /\ UNCHANGED <<chatMemory, task, pc>>

InitTravel ==
    /\ agent = "travel"
    /\ pc = "input"
    /\ chatMemory = << SystemMessage(TRAVEL_AGENT_PROMPT) >>
    /\ noteMemory = <<>>
    /\ notesFile = File(FALSE, TRUE, EmptyStr)
    /\ db = <<>>
    /\ systemPrompt = TRAVEL_AGENT_PROMPT
    /\ calls = <<>>
    /\ task = <<>>
    /\ turn = 0
    /\ nextId = 1
    /\ rlClosed = FALSE
    /\ requests = <<>>
    /\ responses = <<>>
    /\ tierWrites = <<>>
    /\ executed = <<>>
    /\ turnStart = 1
    /\ fileAtTurnStart = notesFile
    /\ oldCalls = <<>>
    /\ oldTask = <<>>
    /\ planningHistory = <<>>
    /\ iterations = 0
    /\ planResult = EmptyStr
    /\ planPc = "idle"
    /\ planCalls = <<>>
    /\ planTask = <<>>
    /\ budgetArgs = NoArgs
    /\ budgetResult = NoResult

InitPlanTrip ==
    /\ agent = "planTrip"
    /\ pc = "plan"
    /\ planningHistory = <<>>
    /\ iterations = 0
    /\ planResult = EmptyStr
    /\ planPc = "call"
    /\ planCalls = <<>>
    /\ planTask = <<>>
    /\ budgetArgs = NoArgs
    /\ budgetResult = NoResult
    /\ chatMemory = <<>>
    /\ noteMemory = <<>>
    /\ notesFile = File(FALSE, TRUE, EmptyStr)
    /\ db = <<>>
    /\ systemPrompt = EmptyStr
    /\ calls = <<>>
    /\ task = <<>>
    /\ turn = 0
    /\ nextId = 1
    /\ rlClosed = FALSE
    /\ requests = <<>>
    /\ responses = <<>>
    /\ tierWrites = <<>>
    /\ executed = <<>>
    /\ turnStart = 0
    /\ fileAtTurnStart = notesFile
    /\ oldCalls = <<>>
    /\ oldTask = <<>>

\* askQuestion resolves: the exit test, the user message, the API call
TravelInput(userInput) ==
    /\ pc = "input"
    /\ agent = "travel"
    /\ IF toLowerCase(userInput) = ExitWord
       THEN /\ pc' = "exited"
            /\ rlClosed' = TRUE
            /\ UNCHANGED <<chatMemory, turn, requests, turnStart, fileAtTurnStart>>
       ELSE /\ turn < MaxTurns
            /\ turn' = turn + 1
            /\ chatMemory' = Append(chatMemory, UserMessage(userInput))
            /\ turnStart' = Len(chatMemory)
            /\ fileAtTurnStart' = notesFile
            /\ requests' = Append(requests,
                    Request("decision", TRUE, TRAVEL_AGENT_PROMPT,
                            Append(chatMemory, UserMessage(userInput)), turn + 1))
            /\ pc' = "decision"
            /\ UNCHANGED rlClosed
    /\ UNCHANGED <<planVars, budgetVars, endedVars, agent, noteMemory, notesFile, db, systemPrompt,
                   calls, task, nextId, responses, tierWrites, executed>>

\* the API call resolves with a message whose tool_calls is an array
\* (listed) or undefined: a message with tool_calls undefined is pushed as
\* it is; under if (message.tool_calls), which an empty array passes as
\* well, the loop over the tool calls starts, which pushes the assistant
\* message once for each call, and a planTrip call it comes to makes its
\* first API call
TravelDecision(content, listed, choices) ==
    /\ pc = "decision"
    /\ agent = "travel"
    /\ listed \/ choices = <<>>
    /\ nextId + Len(choices) - 1 <= MaxCalls
    /\ LET toolCalls == ToolCalls(choices, nextId)
           message == AssistantMessage(content, toolCalls)
           waiting == [i \in 1..Len(toolCalls) |-> "waiting"]
           main == MainLoop(IF listed THEN chatMemory
                            ELSE Append(chatMemory, message),
                            toolCalls, waiting, travelForOf(toolCalls, 1, waiting),
                            PlanNow)
       IN  /\ calls' = toolCalls
           /\ nextId' = nextId + Len(choices)
           /\ responses' = Append(responses, Response("decision", message, turn))
           /\ chatMemory' = main.chat
           /\ task' = main.task
           /\ pc' = main.pc
           /\ SetPlan(main.plan)
    /\ UNCHANGED <<budgetVars, endedVars, agent, noteMemory, notesFile, db, systemPrompt, turn,
                   rlClosed, tierWrites, turnStart, fileAtTurnStart>>

\* the awaited executeFunction of a function that makes no API call
\* settles: the assistant message with the tool calls and the tool message
\* are pushed, and the loop goes on
TravelToolSettles(i) ==
    /\ pc = "dispatch"
    /\ agent = "travel"
    /\ i \in 1..Len(task)
    /\ task[i] = "running"
    /\ calls[i].name # "planTrip"
    /\ \E main \in { MainResult(i, JSONstringify(executeFunction(calls[i])), PlanNow) } :
           /\ chatMemory' = main.chat
           /\ task' = main.task
           /\ pc' = main.pc
           /\ SetPlan(main.plan)
    /\ UNCHANGED <<budgetVars, endedVars, agent, noteMemory, notesFile, db, systemPrompt, calls,
                   turn, nextId, rlClosed, responses, tierWrites, turnStart, fileAtTurnStart>>

\* TravelRequestFails whose catch block takes the user message back: a
\* faulty variant
TravelRequestFailsRollingBack ==
    /\ pc = "decision"
    /\ agent = "travel"
    /\ pc' = "input"
    /\ chatMemory' = SubSeq(chatMemory, 1, Len(chatMemory) - 1)
    /\ UNCHANGED <<planVars, budgetVars, endedVars, agent, noteMemory, notesFile, db, systemPrompt,
                   calls, task, turn, nextId, rlClosed, requests, responses,
                   tierWrites, executed, turnStart, fileAtTurnStart>>

\* the API call of the main loop rejects: the catch block logs the error
\* and the loop reads the next input
TravelRequestFails ==
    /\ pc = "decision"
    /\ agent = "travel"
    /\ pc' = "input"
    /\ UNCHANGED <<planVars, budgetVars, endedVars, agent, chatMemory, noteMemory, notesFile, db,
                   systemPrompt, calls, task, turn, nextId, rlClosed, requests,
                   responses, tierWrites, executed, turnStart, fileAtTurnStart>>

\* planTrip is called by itself
PlanTripCalled(args) ==
    /\ agent = "planTrip"
    /\ planPc = "call"
    /\ systemPrompt' = PlanningPrompt(args)
    /\ \E plan \in { StartPlan(args, requests, executed) } : AfterPlanStep(plan)
    /\ UNCHANGED <<budgetVars, endedVars, agent, noteMemory, notesFile, db, calls, turn, nextId,
                   rlClosed, responses, tierWrites, turnStart, fileAtTurnStart>>

\* the planning API call resolves
PlanDecision(content, choices) ==
    /\ agent \in {"planTrip", "travel"}
    /\ planPc = "decision"
    /\ nextId + Len(choices) - 1 <= MaxCalls
    /\ LET message == AssistantMessage(content, ToolCalls(choices, nextId))
       IN  /\ nextId' = nextId + Len(choices)
           /\ responses' = Append(responses, Response("planning", message, iterations))
           /\ \E plan \in { PlanResponse(PlanNow, message) } : AfterPlanStep(plan)
    /\ UNCHANGED <<budgetVars, endedVars, agent, noteMemory, notesFile, db, systemPrompt, calls,
                   turn, rlClosed, tierWrites, turnStart, fileAtTurnStart>>

\* the awaited executeFunction of a planning tool call settles
PlanToolSettles(i) ==
    /\ agent \in {"planTrip", "travel"}
    /\ planPc = "dispatch"
    /\ i \in 1..Len(planTask)
    /\ planTask[i] = "running"
    /\ planCalls[i].name # "planTrip"
    /\ \E result \in { executeFunction(planCalls[i]) } :
            \E plan \in { PlanResult(PlanNow, i, result) } : AfterPlanStep(plan)
    /\ UNCHANGED <<budgetVars, endedVars, agent, noteMemory, notesFile, db, systemPrompt, calls,
                   turn, nextId, rlClosed, responses, tierWrites, turnStart, fileAtTurnStart>>

\* the planning API call rejects: planTrip rejects
PlanRequestFails ==
    /\ agent \in {"planTrip", "travel"}
    /\ planPc = "decision"
    /\ \E plan \in { [PlanNow EXCEPT !.pc = "failed"] } : AfterPlanStep(plan)
    /\ UNCHANGED <<budgetVars, endedVars, agent, noteMemory, notesFile, db, systemPrompt, calls,
                   turn, nextId, rlClosed, responses, tierWrites, turnStart, fileAtTurnStart>>

TravelDecisions ==
    UNION { [1..n -> TravelChoices] : n \in 0..MaxCalls }

PlanDecisions == UNION { [1..n -> PlanChoices] : n \in 0..MaxCalls }

NextPlanTrip ==
    \/ \E args \in PlanInputs : PlanTripCalled(args)
    \/ /\ planPc = "decision"
       /\ \E content \in PlanContents, choices \in PlanDecisions :
            PlanDecision(content, choices)
    \/ \E i \in 1..MaxCalls : PlanToolSettles(i)
    \/ PlanRequestFails

SpecPlanTrip == InitPlanTrip /\ [][NextPlanTrip]_vars

\* every API call and every tool call of the planning loop settles, and
\* the event loop runs what is ready
SpecPlanTripFair == SpecPlanTrip /\ WF_vars(NextPlanTrip)

NextTravel ==
    \/ \E userInput \in UserInputs : TravelInput(userInput)
    \/ /\ pc = "decision"
       /\ \E content \in ContentChoices, listed \in BOOLEAN :
            \E choices \in (IF listed THEN TravelDecisions ELSE { <<>> }) :
                TravelDecision(content, listed, choices)
    \/ \E i \in 1..MaxCalls : TravelToolSettles(i)
    \/ TravelRequestFails
    \/ /\ planPc = "decision"
       /\ \E content \in PlanContents, choices \in PlanDecisions :
            PlanDecision(content, choices)
    \/ \E i \in 1..MaxCalls : PlanToolSettles(i)
    \/ PlanRequestFails

SpecTravel == InitTravel /\ [][NextTravel]_vars

----------------------------------------------------------------------------
(* The customer agent: customerAgent(state).  chatMemory holds             *)
(* state.conversationHistory; the recursive call at the end of a turn is   *)
(* the next round of the loop.  A customer function is one await: it       *)
(* resolves with its result or throws.                                     *)

CUSTOMER_AGENT_PROMPT == <<"You are a precise and efficient customer service assistant">>

CustomerAgentTools ==
    {"query_customers", "update_customer", "add_customer", "list_customers"}

CustomerChoices ==
    { Call("list_customers", ArgsEmpty), Call("query_customers", ArgsEmail),
      Call("add_customer", ArgsBroken), Call("delete_customer", ArgsEmpty) }

\* the tool message of the customer agent also carries the function name
customerToolMessage(toolCall, text) ==
    [role |-> "tool", content |-> text, tool_calls |-> <<>>,
     tool_call_id |-> toolCall.id, name |-> toolCall.name]

\* JSON.stringify(result) for a result returned and for the object built in
\* the catch block
CustomerResult(toolCall, outcome) ==
    IF outcome = "ok" THEN <<"{\"result of\":\"", toolCall.name, "\"}">>
    ELSE <<"{\"error\":true,\"message\":\"Failed\"}">>

\* for (const toolCall of tool_calls) from the i-th call on, up to the next
\* await, a throw of JSON.parse, or the end of the loop.  A name without a
\* case leaves result undefined, and its tool message is pushed at once.
RECURSIVE customerForOf(_, _, _, _)
customerForOf(toolCalls, i, tasks, history) ==
    IF i > Len(toolCalls) THEN [task |-> tasks, history |-> history]
    ELSE IF ~JSONparse(toolCalls[i].arguments).ok
         THEN [task |-> [tasks EXCEPT ![i] = "threw"], history |-> history]
    ELSE IF toolCalls[i].name \notin CustomerAgentTools
         THEN customerForOf(toolCalls, i + 1, [tasks EXCEPT ![i] = "done"],
                    Append(history, customerToolMessage(toolCalls[i], <<Undefined>>)))
    ELSE [task |-> [tasks EXCEPT ![i] = "running"], history |-> history]

AfterCustomerLoop(history, tasks) ==
    IF \E i \in 1..Len(tasks) : tasks[i] \in Rejected
    THEN [pc |-> "failed", requests |-> requests]
    ELSE IF \E i \in 1..Len(tasks) : tasks[i] = "running"
    THEN [pc |-> "dispatch", requests |-> requests]
    ELSE [pc |-> "final",
          requests |-> Append(requests,
                          Request("final", FALSE, CUSTOMER_AGENT_PROMPT, history, turn))]

InitCustomer ==
    /\ agent = "customer"
    /\ pc = "input"
    /\ chatMemory = <<>>
    /\ noteMemory = <<>>
    /\ notesFile = File(FALSE, TRUE, EmptyStr)
    /\ db = <<>>
    /\ systemPrompt = CUSTOMER_AGENT_PROMPT
    /\ calls = <<>>
    /\ task = <<>>
    /\ turn = 0
    /\ nextId = 1
    /\ rlClosed = FALSE
    /\ requests = <<>>
    /\ responses = <<>>
    /\ tierWrites = <<>>
    /\ executed = <<>>
    /\ turnStart = 0
    /\ fileAtTurnStart = notesFile
    /\ oldCalls = <<>>
    /\ oldTask = <<>>
    /\ planningHistory = <<>>
    /\ iterations = 0
    /\ planResult = EmptyStr
    /\ planPc = "idle"
    /\ planCalls = <<>>
    /\ planTask = <<>>
    /\ budgetArgs = NoArgs
    /\ budgetResult = NoResult

\* askQuestion resolves: the exit test, the user message, the first API call
CustomerInput(userInput) ==
    /\ pc = "input"
    /\ agent = "customer"
    /\ IF toLowerCase(userInput) = ExitWord
       THEN /\ pc' = "exited"
            /\ rlClosed' = TRUE
            /\ UNCHANGED <<chatMemory, turn, requests, turnStart, fileAtTurnStart>>
       ELSE /\ turn < MaxTurns
            /\ turn' = turn + 1
            /\ chatMemory' = Append(chatMemory, UserMessage(userInput))
            /\ turnStart' = Len(chatMemory)
            /\ fileAtTurnStart' = notesFile
            /\ requests' = Append(requests,
                    Request("decision", TRUE, CUSTOMER_AGENT_PROMPT,
                            Append(chatMemory, UserMessage(userInput)), turn + 1))
            /\ pc' = "decision"
            /\ UNCHANGED rlClosed
    /\ UNCHANGED <<planVars, budgetVars, endedVars, agent, noteMemory, notesFile, db, systemPrompt, calls, task,
                   nextId, responses, tierWrites, executed>>

\* the first API call resolves with a message whose tool_calls is an array
\* (listed) or undefined: under if (message.tool_calls), which an empty
\* array passes as well, the assistant message that lists the calls is
\* pushed and the loop over them starts; the final API call is made when
\* the loop is over, or at once with tool_calls undefined
CustomerDecision(content, listed, choices) ==
    /\ pc = "decision"
    /\ agent = "customer"
    /\ listed \/ choices = <<>>
    /\ nextId + Len(choices) - 1 <= MaxCalls
    /\ LET toolCalls == ToolCalls(choices, nextId)
           message == AssistantMessage(content, toolCalls)
           history == IF listed THEN Append(chatMemory, message)
                      ELSE chatMemory
           loop == customerForOf(toolCalls, 1,
                        [i \in 1..Len(toolCalls) |-> "waiting"], history)
           after == AfterCustomerLoop(loop.history, loop.task)
       IN  /\ calls' = toolCalls
           /\ task' = loop.task
           /\ executed' = executed \o NewlyRunning(toolCalls,
                    [i \in 1..Len(toolCalls) |-> "waiting"], loop.task)
           /\ chatMemory' = loop.history
           /\ nextId' = nextId + Len(choices)
           /\ responses' = Append(responses, Response("decision", message, turn))
           /\ pc' = after.pc
           /\ requests' = after.requests
    /\ UNCHANGED <<planVars, budgetVars, endedVars, agent, noteMemory, notesFile, db, systemPrompt, turn, rlClosed,
                   tierWrites, turnStart, fileAtTurnStart>>

\* CustomerToolSettles that calls the customer function again when it
\* threw: a faulty variant
CustomerToolSettlesRetrying(i, outcome) ==
    /\ pc = "dispatch"
    /\ agent = "customer"
    /\ i \in 1..Len(task)
    /\ task[i] = "running"
    /\ IF outcome = "throw"
       THEN /\ executed' = Append(executed, calls[i].id)
            /\ UNCHANGED <<chatMemory, task, pc, requests>>
       ELSE LET pushed == Append(chatMemory,
                        customerToolMessage(calls[i], CustomerResult(calls[i], outcome)))
                loop == customerForOf(calls, i + 1, [task EXCEPT ![i] = "done"], pushed)
                after == AfterCustomerLoop(loop.history, loop.task)
            IN  /\ chatMemory' = loop.history
                /\ task' = loop.task
                /\ executed' = executed \o NewlyRunning(calls,
                        [task EXCEPT ![i] = "done"], loop.task)
                /\ pc' = after.pc
                /\ requests' = after.requests
    /\ UNCHANGED <<planVars, budgetVars, endedVars, agent, noteMemory, notesFile, db, systemPrompt, calls, turn,
                   nextId, rlClosed, responses, tierWrites, turnStart, fileAtTurnStart>>

\* the awaited customer function settles: its result, or the error object
\* of the catch block, is pushed as the tool message and the loop goes on
CustomerToolSettles(i, outcome) ==
    /\ pc = "dispatch"
    /\ agent = "customer"
    /\ i \in 1..Len(task)
    /\ task[i] = "running"
    /\ LET pushed == Append(chatMemory,
                        customerToolMessage(calls[i], CustomerResult(calls[i], outcome)))
           loop == customerForOf(calls, i + 1, [task EXCEPT ![i] = "done"], pushed)
           after == AfterCustomerLoop(loop.history, loop.task)
       IN  /\ chatMemory' = loop.history
           /\ task' = loop.task
           /\ executed' = executed \o NewlyRunning(calls,
                    [task EXCEPT ![i] = "done"], loop.task)
           /\ pc' = after.pc
           /\ requests' = after.requests
    /\ UNCHANGED <<planVars, budgetVars, endedVars, agent, noteMemory, notesFile, db, systemPrompt, calls, turn,
                   nextId, rlClosed, responses, tierWrites, turnStart, fileAtTurnStart>>

\* the final API call resolves: its content is pushed, null or not, and the
\* agent calls itself with the state
CustomerFinal(content) ==
    /\ pc = "final"
    /\ agent = "customer"
    /\ chatMemory' = Append(chatMemory, AssistantMessage(content, <<>>))
    /\ responses' = Append(responses,
                        Response("final", AssistantMessage(content, <<>>), turn))
    /\ pc' = "input"
    /\ UNCHANGED <<planVars, budgetVars, endedVars, agent, noteMemory, notesFile, db, systemPrompt, calls, task,
                   turn, nextId, rlClosed, requests, tierWrites, executed, turnStart, fileAtTurnStart>>

\* an API call rejects: the agent function rejects
CustomerRequestFails ==
    /\ pc \in {"decision", "final"}
    /\ agent = "customer"
    /\ pc' = "failed"
    /\ UNCHANGED <<planVars, budgetVars, endedVars, agent, chatMemory, noteMemory, notesFile, db, systemPrompt,
                   calls, task, turn, nextId, rlClosed, requests, responses,
                   tierWrites, executed, turnStart, fileAtTurnStart>>

CustomerDecisions ==
    UNION { [1..n -> CustomerChoices] : n \in 0..MaxCalls }

NextCustomer ==
    \/ \E userInput \in UserInputs : CustomerInput(userInput)
    \/ /\ pc = "decision"
       /\ \E content \in ContentChoices, listed \in BOOLEAN :
            \E choices \in (IF listed THEN CustomerDecisions ELSE { <<>> }) :
                CustomerDecision(content, listed, choices)
    \/ \E i \in 1..MaxCalls, outcome \in {"ok", "throw"} :
            CustomerToolSettles(i, outcome)
    \/ \E content \in ContentChoices : CustomerFinal(content)
    \/ CustomerRequestFails

SpecCustomer == InitCustomer /\ [][NextCustomer]_vars

----------------------------------------------------------------------------
(* travelAgentFunctions.checkBudget: a call with two integers.  JavaScript *)
(* numbers hold the integers of this range and their differences exactly.  *)

Amounts == (0 - MaxAmount)..MaxAmount

InitBudget ==
    /\ agent = "checkBudget"
    /\ pc = "call"
    /\ budgetArgs \in [totalCost : Amounts, budget : Amounts]
    /\ budgetResult = NoResult
    /\ chatMemory = <<>>
    /\ noteMemory = <<>>
    /\ notesFile = File(FALSE, TRUE, EmptyStr)
    /\ db = <<>>
    /\ systemPrompt = EmptyStr
    /\ calls = <<>>
    /\ task = <<>>
    /\ turn = 0
    /\ nextId = 1
    /\ rlClosed = FALSE
    /\ requests = <<>>
    /\ responses = <<>>
    /\ tierWrites = <<>>
    /\ executed = <<>>
    /\ turnStart = 0
    /\ fileAtTurnStart = notesFile
    /\ oldCalls = <<>>
    /\ oldTask = <<>>
    /\ planningHistory = <<>>
    /\ iterations = 0
    /\ planResult = EmptyStr
    /\ planPc = "idle"
    /\ planCalls = <<>>
    /\ planTask = <<>>

\* the call returns its object
CheckBudgetReturns ==
    /\ agent = "checkBudget"
    /\ pc = "call"
    /\ budgetResult' = <<checkBudget(budgetArgs.totalCost, budgetArgs.budget)>>
    /\ pc' = "returned"
    /\ UNCHANGED <<planVars, budgetArgs, endedVars, agent, chatMemory, noteMemory, notesFile,
                   db, systemPrompt, calls, task, turn, nextId, rlClosed,
                   requests, responses, tierWrites, executed, turnStart, fileAtTurnStart>>

NextBudget == CheckBudgetReturns

SpecBudget == InitBudget /\ [][NextBudget]_vars

----------------------------------------------------------------------------
(* Every agent of the repository: one behaviour is one run of one of them. *)

InitAll == InitMemory \/ InitLookup \/ InitTravel \/ InitCustomer

NextAll ==
    \/ agent \in MemoryAgents /\ Next
    \/ agent \in LookupAgents /\ NextLookup
    \/ agent = "travel" /\ NextTravel
    \/ agent = "customer" /\ NextCustomer

SpecAll == InitAll /\ [][NextAll]_vars

----------------------------------------------------------------------------
(* Views of the state used by the properties *)

Range(f) == { f[i] : i \in DOMAIN f }

ToolMessages(messages) == SelectSeq(messages, LAMBDA m : m.role = "tool")

\* the tool_call_ids of the tool messages, in transcript order
ResultIds(messages) ==
    LET tm == ToolMessages(messages) IN [k \in 1..Len(tm) |-> tm[k].tool_call_id]

CallIds(toolCalls) == [i \in 1..Len(toolCalls) |-> toolCalls[i].id]

HasResult(messages, id) ==
    \E k \in 1..Len(messages) :
        messages[k].role = "tool" /\ messages[k].tool_call_id = id

\* the messages of the current turn
TurnSegment == SubSeq(chatMemory, turnStart + 1, Len(chatMemory))

KnownTool(toolCall) == toolCall.name \in MemoryToolTypes(agent)

\* the arguments parse and hold the property the tool's schema requires
ValidArgs(toolCall) ==
    /\ JSONparse(toolCall.arguments).ok
    /\ RequiredProp(toolCall.name) \in DOMAIN JSONparse(toolCall.arguments).value

FinalRequests(t) ==
    SelectSeq(requests, LAMBDA r : r.turn = t /\ r.kind = "final")

NotesWritten(tier) ==
    LET ws == SelectSeq(tierWrites, LAMBDA w : w.tier = tier)
    IN  [k \in 1..Len(ws) |-> ws[k].note]

----------------------------------------------------------------------------
(* Properties *)

\* C1: in the vector agent, when the tool calls of a decision have all
\* completed (the second API call is made), the tool messages of the turn
\* are one per call and in the order of the calls, whatever the order in
\* which the calls completed.  Stated for decisions that name known tools.
C1_ResultsInRequestOrder ==
    (agent = "vector" /\ pc = "final" /\ \A i \in 1..Len(calls) : KnownTool(calls[i]))
        => ResultIds(TurnSegment) = CallIds(calls)

\* C2: every tool message carries the id of exactly one tool call listed in
\* an assistant message earlier in the transcript, and no id is carried by
\* two tool messages.
C2_ToolResultsCorrelated ==
    \A k \in 1..Len(chatMemory) :
        chatMemory[k].role = "tool" =>
            /\ Cardinality({ <<j, i>> \in (1..(k - 1)) \X (1..MaxCalls) :
                    /\ chatMemory[j].role = "assistant"
                    /\ i \in 1..Len(chatMemory[j].tool_calls)
                    /\ chatMemory[j].tool_calls[i].id = chatMemory[k].tool_call_id })
                = 1
            /\ \A k2 \in 1..Len(chatMemory) :
                (k2 # k /\ chatMemory[k2].role = "tool")
                    => chatMemory[k2].tool_call_id # chatMemory[k].tool_call_id

\* C3: every model request is sent with a transcript in which each tool call
\* listed in an assistant message has a tool message with its id.
C3_NoOrphanAtRequest ==
    \A n \in 1..Len(requests) :
        \A k \in 1..Len(requests[n].messages) :
            \A i \in 1..Len(requests[n].messages[k].tool_calls) :
                HasResult(requests[n].messages, requests[n].messages[k].tool_calls[i].id)

\* C4: when the dispatch of a decision is over and the second API call is
\* made, a call that named an unknown tool has a tool message with its id.
C4_UnknownToolAnswered ==
    pc = "final" =>
        \A i \in 1..Len(calls) :
            ~KnownTool(calls[i]) => HasResult(chatMemory, calls[i].id)

\* C5: a call of a known tool whose arguments are malformed or lack the
\* required property writes no memory tier, does not end the loop, and has
\* a tool message once the dispatch is over.
C5_InvalidArgsRejected ==
    \A i \in 1..Len(calls) :
        (KnownTool(calls[i]) /\ ~ValidArgs(calls[i])) =>
            /\ \A n \in 1..Len(tierWrites) : tierWrites[n].id # calls[i].id
            /\ task[i] # "threw"
            /\ pc = "final" => HasResult(chatMemory, calls[i].id)

\* C6: in the vector agent, a call whose executor threw has a tool message
\* with its id and the agent function has not ended.
C6_ExecutorErrorReported ==
    agent = "vector" =>
        \A i \in 1..Len(task) :
            task[i] = "failed" =>
                HasResult(chatMemory, calls[i].id) /\ pc # "failed"

\* C7: when the second API call of a turn is made, every tool call of the
\* turn's decision has finished and its tool message is in the transcript.
C7_FinalAfterAllResults ==
    pc = "final" =>
        \A i \in 1..Len(calls) :
            task[i] = "done" /\ HasResult(chatMemory, calls[i].id)
\* C8: a turn in which tool calls were requested ends with the
\* transcript of the turn being the user message, the assistant message
\* with the invocation list, the tool messages and then the final text as
\* an assistant message, the second API call having been made without tools.
C8_FinalTextAppended ==
    (pc = "input" /\ turn > 0 /\ calls # <<>>) =>
        LET seg == TurnSegment
            n == Len(seg)
        IN  /\ n >= 3
            /\ seg[1].role = "user"
            /\ seg[2].role = "assistant" /\ seg[2].tool_calls = calls
            /\ \A k \in 3..(n - 1) : seg[k].role = "tool"
            /\ seg[n].role = "assistant" /\ seg[n].tool_calls = <<>>
            /\ Len(FinalRequests(turn)) = 1
            /\ ~FinalRequests(turn)[1].tools

\* the lines appendFileSync writes for a sequence of notes
RECURSIVE Lines(_)
Lines(notes) ==
    IF notes = <<>> THEN <<>> ELSE Head(notes) \o <<Newline>> \o Lines(Tail(notes))

FinalResponses(t) ==
    SelectSeq(responses, LAMBDA r : r.turn = t /\ r.kind = "final")

\* C10: when a turn has rendered its context and made its first API call,
\* every callback of the turn before has returned, every tool call of the
\* turn before has its tool message in the transcript before the new user
\* message, the last response of the turn before is the message right
\* before the new user message, and the context sent holds every note that
\* tools wrote to the short-term list and to the file so far, in the order
\* written.
C10_TurnsSequential ==
    pc = "decision" =>
        /\ \A i \in 1..Len(task) : task[i] = "done"
        /\ turn > 1 =>
            /\ \A i \in 1..Len(calls) :
                    HasResult(SubSeq(chatMemory, 1, turnStart), calls[i].id)
            /\ chatMemory[turnStart] = responses[Len(responses)].message
        /\ requests[Len(requests)].system = systemPrompt
        /\ requests[Len(requests)].messages = chatMemory
        /\ Includes(systemPrompt, readNotesFromMemory(NotesWritten("memory")))
        /\ ReadsFile(agent) => Includes(systemPrompt, Lines(NotesWritten("file")))

\* the API calls the loop made in turn t; those of planTrip are numbered by
\* its iterations
RequestsOfTurn(t) ==
    SelectSeq(requests, LAMBDA r : r.turn = t /\ r.kind # "planning")

DecisionOfTurn(t) ==
    SelectSeq(responses, LAMBDA r : r.turn = t /\ r.kind = "decision")

\* C9: when a turn whose decision requested no tool calls is over, one model
\* request has been made in it and the turn's messages are the user message
\* and one assistant message with the text of that decision.
C9_NoToolTurnSingleRequest ==
    (pc = "input" /\ turn > 0 /\ calls = <<>>) =>
        /\ Len(RequestsOfTurn(turn)) = 1
        /\ Len(TurnSegment) = 2
        /\ TurnSegment[2].role = "assistant"
        /\ TurnSegment[2].content = DecisionOfTurn(turn)[1].message.content

\* the text a list of notes has as a bulleted list, one note per line
RECURSIVE BulletLines(_)
BulletLines(notes) ==
    IF notes = <<>> THEN <<>>
    ELSE IF Len(notes) = 1 THEN <<"- ">> \o notes[1]
    ELSE <<"- ">> \o Head(notes) \o <<Newline>> \o BulletLines(Tail(notes))

\* the part of the system prompt that holds the short-term notes, with the
\* text that precedes it and the text that follows it
ShortTermSection(a, lines) ==
    CASE a = "memory" -> <<"Here is your list of notes:">> \o lines
      [] a = "file" -> <<"Short Term Memory:">> \o lines \o <<"Long Term Memory:">>
      [] a = "vector" ->
            <<"Short Term Memory:">> \o lines \o <<"Long Term Memory (File):">>

\* C11: whenever a turn has rendered its context and sent it with its first
\* API call, the short-term section of that context is the notes written by
\* the tool calls of the earlier turns, each as a line "- note", in the
\* order in which they were written.
C11_ShortTermRendered ==
    pc = "decision" =>
        /\ requests[Len(requests)].system = systemPrompt
        /\ noteMemory = NotesWritten("memory")
        /\ Includes(systemPrompt,
                    ShortTermSection(agent, BulletLines(NotesWritten("memory"))))
        /\ agent = "memory" =>
                systemPrompt = ShortTermSection(agent, BulletLines(NotesWritten("memory")))

\* a turn has rendered two different short-term notes written before it
C11_Witness ==
    /\ pc = "decision"
    /\ turn = 2
    /\ Len(NotesWritten("memory")) = 2
    /\ NotesWritten("memory")[1] # NotesWritten("memory")[2]

\* C12: a loop instance that has not yet accepted an input has an empty
\* short-term list and an empty transcript, and the first context it
\* renders has an empty short-term section and is sent with a transcript of
\* the one user message, whatever short-term notes instances before wrote.
C12_FreshInstanceEmpty ==
    /\ (pc = "input" /\ turn = 0) => (noteMemory = <<>> /\ chatMemory = <<>>)
    /\ (pc = "decision" /\ turn = 1) =>
            /\ Includes(systemPrompt, ShortTermSection(agent, <<>>))
            /\ Len(requests[Len(requests)].messages) = 1
            /\ requests[Len(requests)].messages[1].role = "user"

\* a new instance renders its first context after an instance before it
\* wrote a short-term note
C12_Witness ==
    /\ pc = "decision"
    /\ turn = 1
    /\ NotesWritten("memory") # <<>>

FileNotesWritten ==
    { tierWrites[n].note : n \in { m \in 1..Len(tierWrites) : tierWrites[m].tier = "file" } }

\* C13: whenever an agent that reads notes.txt has rendered its context and
\* sent it with its first API call, the context holds the line of every
\* note that a noteToFile call has written so far, in this loop instance
\* or in an instance that ran before it.
C13_FileNotesRendered ==
    (pc = "decision" /\ ReadsFile(agent)) =>
        /\ requests[Len(requests)].system = systemPrompt
        /\ \A note \in FileNotesWritten :
                Includes(systemPrompt, note \o <<Newline>>)
        /\ Includes(systemPrompt, Lines(NotesWritten("file")))
              \/ ForeignNotes(notesFile.content) > 0

\* the first turn of a new instance renders a note that noteToFile wrote in
\* an instance before it
C13_Witness ==
    /\ pc = "decision"
    /\ turn = 1
    /\ ReadsFile(agent)
    /\ NotesWritten("file") # <<>>
    /\ Includes(systemPrompt, NotesWritten("file")[1] \o <<Newline>>)

IsPrefix(s, t) == Len(s) <= Len(t) /\ SubSeq(t, 1, Len(s)) = s

\* the notes the file tier was given by the tool calls of this step
FileNotesOfStep ==
    LET new == SubSeq(tierWrites', Len(tierWrites) + 1, Len(tierWrites'))
        ws == SelectSeq(new, LAMBDA w : w.tier = "file")
    IN  [k \in 1..Len(ws) |-> ws[k].note]

\* C14: in every step the content of notes.txt before is a prefix of the
\* content after; a step in which noteToFile calls ran adds the note of
\* each followed by one newline and nothing else, a step of another
\* instance adds its note and one newline, and every other step leaves the
\* file as it is.  The file is never removed.
C14_FileAppendOnly ==
    [][ /\ IsPrefix(notesFile.content, notesFile'.content)
        /\ notesFile.exists => notesFile'.exists
        /\ \/ notesFile'.content = notesFile.content \o Lines(FileNotesOfStep)
           \/ /\ FileNotesOfStep = <<>>
              /\ notesFile'.content = notesFile.content \o ForeignNote \o <<Newline>>
      ]_vars

\* the file holds the note left by an earlier session, then a note of
\* another instance and a note written by noteToFile, in either order
C14_Witness ==
    /\ Len(notesFile.content) = 6
    /\ ForeignNotes(notesFile.content) = 1
    /\ NotesWritten("file") # <<>>

\* C15: in every agent, every step leaves the transcript as it was or adds
\* messages at its end: the transcript before the step is a prefix of the
\* transcript after it.
C15_TranscriptAppendOnly ==
    [][ IsPrefix(chatMemory, chatMemory') ]_vars

\* the travel agent has completed two turns, one of them with a tool call
C15_Witness ==
    /\ agent = "travel"
    /\ pc = "input"
    /\ turn = 2
    /\ Len(ToolMessages(chatMemory)) >= 1
    /\ Len(chatMemory) >= 6

\* the text is the word exit in some letter case
IsExit(text) ==
    /\ Len(text) = 4
    /\ text[1] \in {"e", "E"}
    /\ text[2] \in {"x", "X"}
    /\ text[3] \in {"i", "I"}
    /\ text[4] \in {"t", "T"}

\* the step in which an agent takes the user input
InputStep(userInput) ==
    \/ ReadInput(userInput)
    \/ AgentInput(userInput)
    \/ TravelInput(userInput)
    \/ CustomerInput(userInput)

\* C16: in every agent, the step that takes an input spelling exit in any
\* letter case ends the loop and closes the readline interface, makes no
\* model request, leaves the transcript and the memory tiers as they were,
\* and no step follows it.
C16_ExitEndsLoop ==
    [][ /\ \A userInput \in UserInputs :
              (IsExit(userInput) /\ InputStep(userInput)) =>
                  /\ pc' = "exited"
                  /\ rlClosed'
                  /\ UNCHANGED <<chatMemory, noteMemory, notesFile, db, requests,
                                 responses, tierWrites, executed, turn>>
        /\ pc # "exited"
      ]_vars

\* the weather agent was left with exit after a completed turn
C16_Witness ==
    /\ agent = "weather"
    /\ pc = "exited"
    /\ rlClosed
    /\ turn >= 1
    /\ chatMemory # <<>>

\* the step in which a model request of the main loop rejects, or in which
\* planTrip rejects because a model request it made rejected
RequestFailureStep ==
    \/ RequestFails
    \/ AgentRequestFails
    \/ CustomerRequestFails
    \/ TravelRequestFails
    \/ PlanRequestFails

\* C17: a step in which a model request fails ends the agent function with
\* that failure: the loop does not return to waiting for user input.
C17_RequestFailureEndsLoop ==
    [][ RequestFailureStep => pc' = "failed" ]_vars

\* the ids of the tool calls of the current turn's decision
CurrentCallIds ==
    IF DecisionOfTurn(turn) = <<>> THEN {}
    ELSE Range(CallIds(DecisionOfTurn(turn)[1].message.tool_calls))

\* the current turn was ended by a failure: the agent function rejected, or
\* the catch block of the travel agent took over
TurnAborted ==
    /\ turn > 0
    /\ \/ pc = "failed"
       \/ /\ agent = "travel"
          /\ pc = "input"
          /\ \/ DecisionOfTurn(turn) = <<>>
             \/ \E i \in 1..Len(task) : task[i] \in Rejected

\* C18: when a turn has been ended by a failure, the transcript is what it
\* was before the turn's user input was accepted, and no memory tier holds
\* a write of a tool call of that turn.
C18_AbortLeavesNoTrace ==
    TurnAborted =>
        /\ Len(chatMemory) = turnStart
        /\ \A n \in 1..Len(tierWrites) : tierWrites[n].id \notin CurrentCallIds

\* the tool message that reports a note as added to the database
IsDbSuccess(m, toolCall) ==
    /\ m.role = "tool"
    /\ m.tool_call_id = toolCall.id
    /\ Includes(m.content, <<"Note added to database: ">>)

HasDbSuccess(messages, toolCall) ==
    \E k \in 1..Len(messages) : IsDbSuccess(messages[k], toolCall)

\* C19: in the vector agent, the message that a note was added to the
\* database is appended for a noteToDb call only in the step in which the
\* insert succeeds, the embedding having succeeded before, and the row is
\* then in the table; a call whose embedding or insert failed has no such
\* message, and its failure is reported: memoryAgent() rejects with it in
\* the step in which it fails.
C19_DbWriteReported ==
    /\ [](agent = "vector" =>
            \A i \in 1..Len(task) :
                calls[i].name = "noteToDb" =>
                    /\ HasDbSuccess(chatMemory, calls[i]) =>
                            /\ task[i] = "done"
                            /\ \E n \in 1..Len(tierWrites) :
                                    tierWrites[n] = TierWrite(calls[i], "db", NoteOf(calls[i]))
                    /\ task[i] \in {"embed", "insert", "failed", "threw"} =>
                            ~HasDbSuccess(chatMemory, calls[i]))
    /\ [][ agent = "vector" =>
            \A i \in 1..Len(task) :
                /\ (~HasDbSuccess(chatMemory, calls[i]) /\ calls' = calls
                        /\ HasDbSuccess(chatMemory', calls[i])) =>
                    /\ task[i] = "insert"
                    /\ task'[i] = "done"
                    /\ db' = Append(db, NoteOf(calls[i]))
                /\ (task[i] \in {"embed", "insert"} /\ calls' = calls
                        /\ task'[i] = "failed") =>
                    (pc # "failed" /\ pc' = "failed")
         ]_vars

\* the notes the tool calls of this step wrote to a tier
TierNotesOfStep(tier) ==
    LET new == SubSeq(tierWrites', Len(tierWrites) + 1, Len(tierWrites'))
        ws == SelectSeq(new, LAMBDA w : w.tier = tier)
    IN  [k \in 1..Len(ws) |-> ws[k].note]

\* the tier a tool writes
TierOfTool(name) ==
    CASE name \in {"addNote", "noteToMemory"} -> "memory"
      [] name = "noteToFile" -> "file"
      [] name = "noteToDb" -> "db"
      [] OTHER -> "none"

\* C20: in every step of a memory agent, the short-term list, the file and
\* the table change only by the notes that tool calls of the current
\* decision write in that step, each to the tier of its tool; the steps
\* that take the input and render the context, that receive the final
\* response and in which a request fails leave the three tiers unchanged.
C20_TiersWrittenByToolsOnly ==
    [][ /\ noteMemory' = noteMemory \o TierNotesOfStep("memory")
        /\ notesFile'.content = notesFile.content \o Lines(TierNotesOfStep("file"))
        /\ db' = db \o TierNotesOfStep("db")
        /\ \A n \in (Len(tierWrites) + 1)..Len(tierWrites') :
                \E i \in 1..Len(calls') :
                    /\ calls'[i].id = tierWrites'[n].id
                    /\ TierOfTool(calls'[i].name) = tierWrites'[n].tier
                    /\ task'[i] = "done"
        /\ ( \/ \E userInput \in UserInputs : ReadInput(userInput)
             \/ \E content \in ContentChoices : FinalResponse(content)
             \/ RequestFails )
                => UNCHANGED <<noteMemory, notesFile, db>>
      ]_vars

\* tool calls have written the file and the table, and the turn is over
C20_Witness ==
    /\ pc = "input"
    /\ NotesWritten("file") # <<>>
    /\ NotesWritten("db") # <<>>
    /\ db # <<>>

\* C21: in the vector agent a query of the memories table is in progress
\* only for a notesFromDb call of the current decision, each such call
\* queries once, and while the agent function is in the dispatch of that
\* decision or has ended with a failure; the context of every model request
\* is the short-term notes and the file content under their headings and an
\* empty database part, whatever rows the table holds.
C21_RecallOnlyByTool ==
    agent = "vector" =>
        /\ \A i \in 1..Len(task) :
                task[i] = "retrieve" =>
                    /\ calls[i].name = "notesFromDb"
                    /\ pc \in {"dispatch", "failed"}
                    /\ Len(SelectSeq(executed, LAMBDA id : id = calls[i].id)) = 1
        /\ \A n \in 1..Len(requests) :
                /\ requests[n].system[Len(requests[n].system)] = "Long Term Memory (Database):"
                /\ \E k \in 0..Len(noteMemory) :
                        Includes(requests[n].system,
                            ShortTermSection(agent, BulletLines(SubSeq(noteMemory, 1, k))))
        /\ pc = "decision" =>
                systemPrompt =
                    <<"Short Term Memory:">> \o BulletLines(noteMemory)
                    \o <<"Long Term Memory (File):">> \o notesFile.content
                    \o <<"Long Term Memory (Database):">>

\* the vector agent has rendered the context of a turn with a row in the
\* table, after a turn in which notesFromDb queried the table
C21_Witness ==
    /\ agent = "vector"
    /\ pc = "decision"
    /\ turn = 2
    /\ db # <<>>
    /\ \E k \in 1..Len(chatMemory) :
            /\ chatMemory[k].role = "tool"
            /\ Includes(chatMemory[k].content, <<"Notes from database: ">>)

\* the number of times x occurs in the sequence s
Count(s, x) == Len(SelectSeq(s, LAMBDA y : y = x))

\* C22: in every agent, the executor of a tool call is called at most once,
\* whether the call completed or failed, and a tool call writes a memory
\* tier at most once.
C22_ExecutedAtMostOnce ==
    /\ \A n \in 1..Len(executed) : Count(executed, executed[n]) = 1
    /\ \A n \in 1..Len(executed) : executed[n] \in 1..(nextId - 1)
    /\ \A n, m \in 1..Len(tierWrites) :
            tierWrites[n].id = tierWrites[m].id => n = m

\* the travel agent is back at the input after planTrip rejected: the
\* executors of two calls have been called, that of planTrip among them
C22_Witness ==
    /\ agent = "travel"
    /\ pc = "input"
    /\ Len(executed) = 2
    /\ \E i \in 1..Len(task) :
            task[i] = "failed" /\ Count(executed, calls[i].id) = 1

\* the text of the last message the model sent in the current turn
FinalTextOfTurn ==
    IF FinalResponses(turn) # <<>> THEN FinalResponses(turn)[1].message.content
    ELSE DecisionOfTurn(turn)[1].message.content

\* C23: in every agent, when a turn has completed and the loop waits for
\* the next input, the last message of the transcript is an assistant
\* message without tool calls whose content is the text of the turn's final
\* response.
C23_TurnEndsWithFinalText ==
    (pc = "input" /\ turn > 0 /\ ~TurnAborted) =>
        LET last == chatMemory[Len(chatMemory)]
        IN  /\ last.role = "assistant"
            /\ last.tool_calls = <<>>
            /\ last.content = FinalTextOfTurn

\* the content of the tool message of a tool call
ResultOf(toolCall) ==
    LET k == CHOOSE k \in 1..Len(chatMemory) :
                chatMemory[k].role = "tool" /\ chatMemory[k].tool_call_id = toolCall.id
    IN  chatMemory[k].content

\* C24: in the vector agent, the result of a completed notesFromDb call
\* contains every note that has the text of the query and that a noteToDb
\* call wrote in an earlier turn, or that a completed noteToDb call listed
\* before it in the same decision wrote.
C24_QuerySeesWrittenNote ==
    agent = "vector" =>
        \A i \in 1..Len(task) :
            (calls[i].name = "notesFromDb" /\ task[i] = "done") =>
                /\ \A n \in 1..Len(tierWrites) :
                        ( /\ tierWrites[n].tier = "db"
                          /\ tierWrites[n].id < calls[1].id
                          /\ tierWrites[n].note = QueryOf(calls[i]) )
                            => Includes(ResultOf(calls[i]), tierWrites[n].note)
                /\ \A j \in 1..(i - 1) :
                        ( /\ calls[j].name = "noteToDb"
                          /\ task[j] = "done"
                          /\ NoteOf(calls[j]) = QueryOf(calls[i]) )
                            => Includes(ResultOf(calls[i]), NoteOf(calls[j]))

\* the tool calls of the current turn's decision
CurrentCalls ==
    IF DecisionOfTurn(turn) = <<>> THEN <<>>
    ELSE DecisionOfTurn(turn)[1].message.tool_calls

\* C25: in the customer agent, once the decision of a turn requested tool
\* calls, the turn's messages are the user message, then one assistant
\* message that lists the calls, then tool messages with the ids of the
\* calls in request order, one per call; the loop over the calls does not
\* end before every call has its tool message, and the final request is
\* made with all of them.
C25_OneResultPerCall ==
    (agent = "customer" /\ CurrentCalls # <<>>) =>
        LET seg == TurnSegment
            listing == SelectSeq(seg, LAMBDA m : m.tool_calls # <<>>)
        IN  /\ Len(seg) >= 2
            /\ seg[2].role = "assistant" /\ seg[2].tool_calls = CurrentCalls
            /\ Len(listing) = 1
            /\ IsPrefix(ResultIds(seg), CallIds(CurrentCalls))
            /\ \A i \in 1..Len(task) : task[i] \notin Rejected
            /\ pc \in {"final", "input", "exited"}
                    => ResultIds(seg) = CallIds(CurrentCalls)

\* C26: in the travel agent, when a turn whose decision requested tool
\* calls has completed, the turn's messages hold the assistant message with
\* the list of the calls once, right after the user message and before the
\* tool messages.
C26_InvocationListOnce ==
    (agent = "travel" /\ pc = "input" /\ turn > 0 /\ CurrentCalls # <<>>
        /\ ~TurnAborted) =>
        LET seg == TurnSegment
            listing == SelectSeq(seg, LAMBDA m : m.tool_calls # <<>>)
        IN  /\ Len(listing) = 1
            /\ seg[2].role = "assistant" /\ seg[2].tool_calls = CurrentCalls
            /\ \A k \in 3..Len(seg) : seg[k].role = "tool"

\* C27: in the vector agent, a call that comes after a call of the same
\* batch that threw has appended no message and written no tier; and once
\* a call of the batch has failed and memoryAgent() has ended with that
\* failure, no step appends to the transcript or writes a memory tier.
C27_NoWritesAfterAbort ==
    /\ [](agent = "vector" =>
            \A i \in 1..Len(task) : \A j \in (i + 1)..Len(task) :
                task[i] = "threw" =>
                    /\ ~HasResult(chatMemory, calls[j].id)
                    /\ \A n \in 1..Len(tierWrites) : tierWrites[n].id # calls[j].id)
    /\ [][ (agent = "vector" /\ pc = "failed") =>
                UNCHANGED <<chatMemory, noteMemory, notesFile, db>> ]_vars

\* the notes written to a tier by the tool calls of the current turn, and
\* those written before it
NotesOfTurn(tier) ==
    LET ws == SelectSeq(tierWrites,
                    LAMBDA w : w.tier = tier /\ w.id \in CurrentCallIds)
    IN  [k \in 1..Len(ws) |-> ws[k].note]

NotesBeforeTurn(tier) ==
    LET ws == SelectSeq(tierWrites,
                    LAMBDA w : w.tier = tier /\ w.id \notin CurrentCallIds)
    IN  [k \in 1..Len(ws) |-> ws[k].note]

\* notes.txt as it was when the current turn began, before the tool calls
\* of the turn and the other instances appended to it
FileBeforeTurn == fileAtTurnStart

\* C28: every request of the current turn of a memory agent, the decision
\* request and the final request alike, carries the system prompt rendered
\* when the turn began: the prompt of the short-term notes and the file as
\* they were before the tool calls of the turn wrote anything.
C28_ContextRenderedAtTurnStart ==
    (agent \in MemoryAgents /\ turn > 0) =>
        \A k \in 1..Len(requests) :
            (requests[k].turn = turn /\ requests[k].kind # "planning") =>
                /\ requests[k].system = systemPrompt
                /\ requests[k].system =
                        RenderPrompt(agent, NotesBeforeTurn("memory"), FileBeforeTurn)

\* the final request of the second turn has been sent after a tool call of
\* the turn wrote a short-term note, an earlier turn having written another
C28_Witness ==
    /\ agent \in MemoryAgents
    /\ pc = "final"
    /\ turn = 2
    /\ Len(RequestsOfTurn(turn)) = 2
    /\ NotesOfTurn("memory") # <<>>
    /\ NotesBeforeTurn("memory") # <<>>
    /\ NotesOfTurn("memory") # NotesBeforeTurn("memory")

\* the current turn ended while its context was rendered: no request of the
\* turn was made
RenderFailed ==
    /\ pc = "failed"
    /\ turn > 0
    /\ RequestsOfTurn(turn) = <<>>

\* C29: when the file agent or the vector agent accepts an input other
\* than exit while notes.txt does not exist, the step ends the agent
\* function with the failure and leaves the transcript, the requests made
\* and the three memory tiers as they were; and no step follows the
\* failure, so the read is not tried again.
C29_UnreadableFileFailsBeforeRequest ==
    /\ [][ \A userInput \in UserInputs :
            ( /\ ReadInput(userInput)
              /\ ~IsExit(userInput)
              /\ agent \in {"file", "vector"}
              /\ ~notesFile.exists )
                => /\ pc' = "failed"
                   /\ UNCHANGED <<chatMemory, requests, noteMemory, notesFile,
                                  db, tierWrites>> ]_vars
    /\ [][ ~RenderFailed ]_vars

\* the first turn of a file-reading agent has failed on the missing file
C29_Witness ==
    /\ agent \in {"file", "vector"}
    /\ RenderFailed
    /\ ~notesFile.exists
    /\ turn = 1
    /\ chatMemory = <<>>
    /\ requests = <<>>

\* the tool calls of the current turn whose tool function was called, in
\* the order in which it was called
ExecutedOfTurn ==
    LET ids == SelectSeq(executed, LAMBDA id : id \in CurrentCallIds)
    IN  [k \in 1..Len(ids) |-> CHOOSE i \in 1..Len(calls) : calls[i].id = ids[k]]

\* C30: in the weather and news agents every turn that is over, by the
\* return to the prompt or by the end of the agent, has made exactly two
\* requests, the decision request with the tools and then the final request
\* without them, and no turn makes a third; no message with an invocation
\* list is in the transcript and every message is a user or an assistant
\* message; and a turn that has returned to the prompt has appended the
\* user message, one assistant message with the output of each tool call
\* that was executed, in that order, and the text of the final response:
\* 1 + executed + 1 messages.
C30_LookupTurnShape ==
    agent \in LookupAgents =>
        /\ \A t \in 1..turn :
            LET rs == RequestsOfTurn(t)
            IN  /\ Len(rs) \in 1..2
                /\ rs[1].kind = "decision" /\ rs[1].tools
                /\ Len(rs) = 2 => (rs[2].kind = "final" /\ ~rs[2].tools)
                /\ (t < turn \/ pc \in {"input", "failed"}) => Len(rs) = 2
        /\ \A k \in 1..Len(chatMemory) :
                /\ chatMemory[k].role \in {"user", "assistant"}
                /\ chatMemory[k].tool_calls = <<>>
        /\ (turn > 0 /\ pc = "input") =>
                LET seg == TurnSegment
                    ran == ExecutedOfTurn
                IN  /\ Len(seg) = 1 + Len(ran) + 1
                    /\ seg[1].role = "user"
                    /\ \A k \in 1..Len(ran) :
                            /\ seg[1 + k].role = "assistant"
                            /\ \E outcome \in LookupOutcomes(agent) :
                                    /\ outcome.kind # "reject"
                                    /\ seg[1 + k].content =
                                        LookupResult(agent, calls[ran[k]], outcome)
                    /\ seg[Len(seg)] =
                            responses[Len(responses)].message
                    /\ responses[Len(responses)].kind = "final"

\* C33: the object checkBudget returned for two integers has withinBudget
\* true exactly when totalCost is at most budget, has budget - totalCost as
\* its difference, and has the totalCost and the budget it was called with.
C33_CheckBudget ==
    (agent = "checkBudget" /\ pc = "returned") =>
        /\ Len(budgetResult) = 1
        /\ budgetResult[1].withinBudget \in BOOLEAN
        /\ budgetResult[1].withinBudget <=> (budgetArgs.totalCost <= budgetArgs.budget)
        /\ budgetResult[1].difference = budgetArgs.budget - budgetArgs.totalCost
        /\ budgetResult[1].totalCost = budgetArgs.totalCost
        /\ budgetResult[1].budget = budgetArgs.budget
        /\ DOMAIN budgetResult[1] = {"withinBudget", "difference", "totalCost", "budget"}

\* a call whose total cost equals its budget has returned
C33_Witness ==
    /\ agent = "checkBudget"
    /\ pc = "returned"
    /\ budgetArgs.totalCost = budgetArgs.budget
    /\ budgetArgs.budget = MaxAmount
    /\ budgetResult[1].withinBudget
    /\ budgetResult[1].difference = 0

\* the tool calls of the planning decisions so far, in the order of
\* planningHistory
RECURSIVE ToolCallsOf(_)
ToolCallsOf(messages) ==
    IF messages = <<>> THEN <<>>
    ELSE Head(messages).tool_calls \o ToolCallsOf(Tail(messages))

\* the tool calls whose tool message is in planningHistory and that were
\* isTripPlanned calls with a true isPlanned, in the order of their tool
\* messages
PlannedCalls ==
    LET all == ToolCallsOf(planningHistory)
        ids == ResultIds(planningHistory)
        byId(id) == CHOOSE c \in Range(all) : c.id = id
        hits == SelectSeq(ids,
                    LAMBDA id : /\ byId(id).name = "isTripPlanned"
                                /\ JSONparse(byId(id).arguments).ok
                                /\ Truthy(Prop(JSONparse(byId(id).arguments).value,
                                               "isPlanned")))
    IN  [k \in 1..Len(hits) |-> byId(hits[k])]

\* planTrip has returned or has rejected
PlanTripEnded == planPc \in {"returned", "failed"}

\* C31: a planTrip call makes at most MAX_ITERATIONS = 10 API calls, one
\* for each iteration begun; when it returns without having processed an
\* isTripPlanned call with a true isPlanned, it has made all ten and it
\* returns the failure text; and when every API call and tool call
\* settles, the call ends, by a return or by an exception.
C31_PlanTripTerminates ==
    /\ [](agent = "planTrip" =>
            /\ Len(requests) <= MAX_ITERATIONS
            /\ iterations <= MAX_ITERATIONS
            /\ planPc \in {"decision", "dispatch"} => Len(requests) = iterations + 1)
    /\ [](( agent = "planTrip" /\ planPc = "returned" /\ PlannedCalls = <<>> ) =>
            /\ planResult = PlanFailureText
            /\ iterations = MAX_ITERATIONS
            /\ Len(requests) = MAX_ITERATIONS)
    /\ (agent = "planTrip" ~> PlanTripEnded)

\* planTrip has returned the failure text after ten API calls, having
\* processed an isTripPlanned call whose isPlanned was false
C31_Witness ==
    /\ agent = "planTrip"
    /\ planPc = "returned"
    /\ planResult = PlanFailureText
    /\ Len(requests) = MAX_ITERATIONS
    /\ PlannedCalls = <<>>
    /\ \E c \in Range(ToolCallsOf(planningHistory)) :
            c.name = "isTripPlanned" /\ HasResult(planningHistory, c.id)

\* C32: as soon as planningHistory holds the tool message of an
\* isTripPlanned call with a true isPlanned, planTrip has returned: with
\* the finalItinerary of that call, with that tool message as the last
\* message, with no later tool call of the decision executed or answered
\* and with no API call made after the decision; and planTrip returns in
\* no other way before the iterations are used up, so that an
\* isTripPlanned call with a false isPlanned does not end planning.
C32_ReturnsFirstPlanned ==
    agent = "planTrip" =>
        /\ PlannedCalls # <<>> =>
            LET first == PlannedCalls[1]
                last == planningHistory[Len(planningHistory)]
            IN  /\ planPc = "returned"
                /\ Len(PlannedCalls) = 1
                /\ planResult = Prop(JSONparse(first.arguments).value, "finalItinerary")
                /\ last.role = "tool" /\ last.tool_call_id = first.id
                /\ \E i \in 1..Len(planCalls) :
                        /\ planCalls[i] = first
                        /\ planTask[i] = "done"
                        /\ \A j \in (i + 1)..Len(planCalls) :
                                /\ planTask[j] = "waiting"
                                /\ Count(executed, planCalls[j].id) = 0
                                /\ ~HasResult(planningHistory, planCalls[j].id)
                /\ Len(requests) = Len(responses)
                /\ Len(requests) = iterations + 1
        /\ (planPc = "returned" /\ PlannedCalls = <<>>) =>
                /\ iterations = MAX_ITERATIONS
                /\ planResult = PlanFailureText

\* planTrip has returned the itinerary of the first of two isTripPlanned
\* calls of one decision, both with a true isPlanned
C32_Witness ==
    /\ agent = "planTrip"
    /\ planPc = "returned"
    /\ Len(planCalls) = 2
    /\ planCalls[1].arguments = ArgsPlanned
    /\ planCalls[2].name = "isTripPlanned" /\ planCalls[2].arguments = ArgsPlannedToo
    /\ planTask = <<"done", "waiting">>
    /\ planResult = <<"Day 1">>
    /\ iterations > 0

====
